---- MODULE Spec2Model ----
(***************************************************************************)
(* FoodBlock python SDK: block construction and canonical hashing          *)
(* (block.py, canonical.py) and the graph traversals (chain.py,            *)
(* forward.py).                                                            *)
(*                                                                         *)
(* Python values are tagged records: None, bool, int, str, list and dict.  *)
(* A dict keeps its insertion order: it is a sequence of <<key, value>>    *)
(* pairs with pairwise different keys.  Strings are TLA+ strings and are   *)
(* ordered by code point, as Python orders them.  A block, the dict with   *)
(* the keys hash, type, state and refs, is a record of these four fields.  *)
(***************************************************************************)
EXTENDS Integers, Sequences, FiniteSets, TLC

(***************************************************************************)
(* Bounds of the model.                                                    *)
(***************************************************************************)
MaxSize == 3     \* keys plus array elements of state and refs, per create call
MaxDepth == 3    \* largest max_depth passed to a traversal
MaxMentions == 4 \* references held by the blocks of a store recall walks
MaxChildren == 2 \* nodes in one answer of a forward resolver
MaxFields == 5   \* fields of a merkleized state
MaxCorpus == 4   \* blocks of the corpus an actor is scored on
MaxQueue == 3    \* blocks added to an offline queue

----------------------------------------------------------------------------
(***************************************************************************)
(* Python values.                                                          *)
(***************************************************************************)
None == [t |-> "none"]
PyBool(b) == [t |-> "bool", b |-> b]
PyInt(n) == [t |-> "int", n |-> n]
PyStr(s) == [t |-> "str", s |-> s]
PyList(elems) == [t |-> "list", elems |-> elems]
PyDict(pairs) == [t |-> "dict", pairs |-> pairs]

EmptyDict == PyDict(<<>>)

IsNone(v) == v.t = "none"
IsStr(v) == v.t = "str"
IsList(v) == v.t = "list"
IsDict(v) == v.t = "dict"

\* Python truthiness of a value (the `x or {}` and `not x` idioms).
Truthy(v) ==
    CASE v.t = "none" -> FALSE
      [] v.t = "bool" -> v.b
      [] v.t = "int" -> v.n # 0
      [] v.t = "str" -> v.s # ""
      [] v.t = "list" -> v.elems # <<>>
      [] v.t = "dict" -> v.pairs # <<>>
      [] v.t = "block" -> TRUE

\* `x or {}`
OrEmptyDict(v) == IF Truthy(v) THEN v ELSE EmptyDict

Range(seq) == {seq[i] : i \in 1..Len(seq)}

Keys(d) == [i \in 1..Len(d.pairs) |-> d.pairs[i][1]]
KeySet(d) == Range(Keys(d))
HasKey(d, k) == k \in KeySet(d)
\* d[k] / d.get(k): the value under k, None when the key is absent
Get(d, k) ==
    IF HasKey(d, k)
    THEN d.pairs[CHOOSE i \in 1..Len(d.pairs) : d.pairs[i][1] = k][2]
    ELSE None
\* d[k] = v: an existing key keeps its position, a new key goes last
DictSet(d, k, v) ==
    IF HasKey(d, k)
    THEN PyDict([i \in 1..Len(d.pairs) |->
                 IF d.pairs[i][1] = k THEN <<k, v>> ELSE d.pairs[i]])
    ELSE PyDict(Append(d.pairs, <<k, v>>))

----------------------------------------------------------------------------
(***************************************************************************)
(* Strings: code points and the order Python's sorted() uses.              *)
(***************************************************************************)
Lower == "abcdefghijklmnopqrstuvwxyz"
Digits == "0123456789"

IndexIn(alphabet, c) ==
    CHOOSE i \in 1..Len(alphabet) : SubSeq(alphabet, i, i) = c
OccursIn(alphabet, c) ==
    \E i \in 1..Len(alphabet) : SubSeq(alphabet, i, i) = c

\* The model's strings are ASCII.  Two ASCII characters stand for
\* non-ASCII code points, so that Unicode normalization has something to do:
\*   "'"  is U+0301 COMBINING ACUTE ACCENT,
\*   "E"  is U+00E9 LATIN SMALL LETTER E WITH ACUTE (the composition of e, U+0301).
CombiningAcute == "'"
EAcute == "E"

\* ord(c) of a one-character string
OrdOf(c) ==
    CASE OccursIn(Lower, c) -> 96 + IndexIn(Lower, c)
      [] OccursIn(Digits, c) -> 47 + IndexIn(Digits, c)
      [] c = "_" -> 95
      [] c = "." -> 46
      [] c = EAcute -> 233
      [] c = CombiningAcute -> 769

Alphabet ==
    {SubSeq(Lower, i, i) : i \in 1..Len(Lower)}
        \cup {SubSeq(Digits, i, i) : i \in 1..Len(Digits)}
        \cup {"_", ".", EAcute, CombiningAcute}

OrdTable == [c \in Alphabet |-> OrdOf(c)]
Ord(c) == OrdTable[c]

RECURSIVE NFC(_)
\* unicodedata.normalize("NFC", s): canonical composition, here of the one
\* composable pair of the alphabet
NFC(s) ==
    IF Len(s) < 2 THEN s
    ELSE IF SubSeq(s, 1, 2) = "e" \o CombiningAcute
         THEN EAcute \o NFC(SubSeq(s, 3, Len(s)))
         ELSE SubSeq(s, 1, 1) \o NFC(SubSeq(s, 2, Len(s)))

RECURSIVE StrLess(_, _)
\* s < t on Python str: lexicographic by code point
StrLess(s, t) ==
    IF t = "" THEN FALSE
    ELSE IF s = "" THEN TRUE
    ELSE LET a == Ord(SubSeq(s, 1, 1))
             b == Ord(SubSeq(t, 1, 1))
         IN  IF a # b THEN a < b
             ELSE StrLess(SubSeq(s, 2, Len(s)), SubSeq(t, 2, Len(t)))

\* str.startswith
startswith(s, p) == Len(p) <= Len(s) /\ SubSeq(s, 1, Len(p)) = p

RECURSIVE InsertSorted(_, _)
InsertSorted(sortedSeq, s) ==
    IF sortedSeq = <<>> THEN <<s>>
    ELSE IF StrLess(s, Head(sortedSeq)) THEN <<s>> \o sortedSeq
    ELSE <<Head(sortedSeq)>> \o InsertSorted(Tail(sortedSeq), s)

\* sorted() left out: the sequence as given
sorted_AsGiven(seq) == seq

RECURSIVE sorted(_)
\* sorted() of a sequence of TLA+ strings
sorted(seq) ==
    IF seq = <<>> THEN <<>>
    ELSE InsertSorted(sorted(SubSeq(seq, 1, Len(seq) - 1)), seq[Len(seq)])

RECURSIVE join(_, _)
\* sep.join(parts)
join(sep, parts) ==
    IF parts = <<>> THEN ""
    ELSE IF Len(parts) = 1 THEN parts[1]
    ELSE parts[1] \o sep \o join(sep, Tail(parts))

RECURSIVE NatToStr(_)
NatToStr(n) ==
    IF n < 10 THEN SubSeq(Digits, n + 1, n + 1)
    ELSE NatToStr(n \div 10) \o SubSeq(Digits, (n % 10) + 1, (n % 10) + 1)

\* str(n) of a Python int
IntToStr(n) == IF n < 0 THEN "-" \o NatToStr(-n) ELSE NatToStr(n)

----------------------------------------------------------------------------
(***************************************************************************)
(* canonical.py: deterministic serialization.                              *)
(***************************************************************************)
\* json.dumps(s, ensure_ascii=False); no character of the alphabet needs an
\* escape
json_dumps(s) == "\"" \o s \o "\""

\* _canonical_number(n) for a Python int (the model has no floats)
_canonical_number(n) == IntToStr(n)

AllStr(elems) == \A i \in 1..Len(elems) : IsStr(elems[i])

\* a refs array serialized in the order given
SortedStrs_AsGiven(elems) == elems

\* sorted() of a list of str values
SortedStrs(elems) ==
    LET strs == sorted([i \in 1..Len(elems) |-> elems[i].s])
    IN  [i \in 1..Len(strs) |-> PyStr(strs[i])]

NotNone(v) == ~IsNone(v)

RECURSIVE _stringify(_, _)
\* _stringify(value, in_refs): a str value, or None for None
_stringify(value, in_refs) ==
    CASE value.t = "none" -> None
      [] value.t = "bool" -> PyStr(IF value.b THEN "true" ELSE "false")
      [] value.t = "int" -> PyStr(_canonical_number(value.n))
      [] value.t = "str" -> PyStr(json_dumps(NFC(value.s)))
      [] value.t = "list" ->
           LET items == IF in_refs /\ AllStr(value.elems)
                        THEN SortedStrs(value.elems)
                        ELSE value.elems
               parts == [i \in 1..Len(items) |-> _stringify(items[i], in_refs)]
               filtered == SelectSeq(parts, NotNone)
           IN  PyStr("[" \o join(",", [i \in 1..Len(filtered) |-> filtered[i].s])
                         \o "]")
      [] value.t = "dict" ->
           LET keys == sorted(Keys(value))
               vals == [i \in 1..Len(keys) |->
                          _stringify(Get(value, keys[i]),
                                     in_refs \/ keys[i] = "refs")]
               idx == SelectSeq([i \in 1..Len(keys) |-> i],
                                LAMBDA i : NotNone(vals[i]))
               parts == [j \in 1..Len(idx) |->
                           json_dumps(NFC(keys[idx[j]])) \o ":" \o vals[idx[j]].s]
           IN  PyStr("{" \o join(",", parts) \o "}")

canonical(type_, state, refs) ==
    _stringify(PyDict(<< <<"type", type_>>, <<"state", state>>,
                         <<"refs", refs>> >>), FALSE).s

----------------------------------------------------------------------------
(***************************************************************************)
(* block.py: create, update, compute_hash.                                 *)
(***************************************************************************)
_EVENT_PREFIXES == <<"transfer.", "transform.", "observe.">>
_DEFINITIONAL == {"observe.vocabulary", "observe.template", "observe.schema",
                  "observe.trust_policy", "observe.protocol"}

\* hashlib.sha256(c.encode("utf-8")).hexdigest(): a digest that is different
\* for different inputs
sha256(c) == "sha256(" \o c \o ")"

compute_hash(type_, state, refs) ==
    sha256(canonical(type_, OrEmptyDict(state), OrEmptyDict(refs)))

RECURSIVE _omit_nulls(_)
_omit_nulls(obj) ==
    IF ~IsDict(obj) THEN obj
    ELSE LET kept == SelectSeq(obj.pairs, LAMBDA p : NotNone(p[2]))
         IN  PyDict([i \in 1..Len(kept) |->
               LET key == kept[i][1]
                   value == kept[i][2]
               IN  IF IsDict(value) THEN <<key, _omit_nulls(value)>>
                   ELSE IF IsList(value)
                   THEN LET vs == SelectSeq(value.elems, NotNone)
                        IN  <<key, PyList([j \in 1..Len(vs) |-> _omit_nulls(vs[j])])>>
                   ELSE <<key, value>>])

Raise(exc) == [raised |-> exc]
Raised(r) == "raised" \in DOMAIN r

\* type_.startswith(p) for some event prefix, and type_ not definitional
is_event(type_) ==
    /\ \E i \in 1..Len(_EVENT_PREFIXES) : startswith(type_.s, _EVENT_PREFIXES[i])
    /\ type_.s \notin _DEFINITIONAL

\* the refs validation loop of create
ValidRefValue(value) == IsStr(value) \/ (IsList(value) /\ AllStr(value.elems))

\* create(type_, state, refs); uuid is the value uuid.uuid4() returns, read
\* only when an instance_id is injected
create(type_, state, refs, uuid) ==
    IF ~Truthy(type_) \/ ~IsStr(type_) THEN Raise("ValueError")
    ELSE LET raw_state0 == OrEmptyDict(state)
             raw_state == IF is_event(type_) /\ ~HasKey(raw_state0, "instance_id")
                          THEN PyDict(<< <<"instance_id", PyStr(uuid)>> >>
                                      \o raw_state0.pairs)
                          ELSE raw_state0
             state1 == _omit_nulls(raw_state)
             refs1 == _omit_nulls(OrEmptyDict(refs))
         IN  IF \E i \in 1..Len(refs1.pairs) : ~ValidRefValue(refs1.pairs[i][2])
             THEN Raise("ValueError")
             ELSE [t |-> "block", hash |-> PyStr(compute_hash(type_, state1, refs1)),
                   type |-> type_, state |-> state1, refs |-> refs1]

\* update with {"updates": previous_hash, **refs}: the caller's entry wins
update_CallerWins(previous_hash, type_, state, refs, uuid) ==
    IF ~Truthy(previous_hash) \/ ~IsStr(previous_hash) THEN Raise("ValueError")
    ELSE LET given == OrEmptyDict(refs)
             merged_refs == IF HasKey(given, "updates") THEN given
                            ELSE DictSet(given, "updates", previous_hash)
         IN  create(type_, state, merged_refs, uuid)

\* update(previous_hash, type_, state, refs)
update(previous_hash, type_, state, refs, uuid) ==
    IF ~Truthy(previous_hash) \/ ~IsStr(previous_hash) THEN Raise("ValueError")
    ELSE LET merged_refs == DictSet(OrEmptyDict(refs), "updates", previous_hash)
         IN  create(type_, state, merged_refs, uuid)

----------------------------------------------------------------------------
(***************************************************************************)
(* Calls of create and update.  A first call create(cr_type, cr_state,     *)
(* cr_refs) is followed by a second call whose arguments are the same      *)
(* arguments written differently: the same objects, the same keys inserted *)
(* in another order, or one array with its elements in another order.      *)
(***************************************************************************)
VARIABLES cr_pc, cr_type, cr_state, cr_refs, cr_block,
          cr_variant, cr_state2, cr_refs2, cr_block2, cr_previous_hash

createVars == <<cr_pc, cr_type, cr_state, cr_refs, cr_block,
                cr_variant, cr_state2, cr_refs2, cr_block2, cr_previous_hash>>

\* chain(start_hash, resolve, max_depth): arguments, locals, and the
\* hashes asked of the resolver so far
VARIABLES ch_pc, ch_start_hash, ch_max_depth, ch_resolver, ch_store,
          ch_visited, ch_result, ch_current, ch_depth, ch_calls, ch_answers

chainVars == <<ch_pc, ch_start_hash, ch_max_depth, ch_resolver, ch_store,
               ch_visited, ch_result, ch_current, ch_depth, ch_calls, ch_answers>>

\* head(start_hash, resolve_forward): the arguments of the call (max_depth
\* is None when the caller passes none), the stored blocks the resolver
\* indexes, and the local current
VARIABLES hd_pc, hd_start_hash, hd_max_depth, hd_blocks, hd_current

headVars == <<hd_pc, hd_start_hash, hd_max_depth, hd_blocks, hd_current>>

\* recall(source_hash, resolve_forward, max_depth, types, roles): the
\* arguments, the stored blocks the resolver indexes, and the locals
VARIABLES rc_pc, rc_source_hash, rc_max_depth, rc_types, rc_roles, rc_blocks,
          rc_visited, rc_affected, rc_paths, rc_max_depth_seen, rc_queue
\* the function the caller entered, recall or downstream, and what it returned
VARIABLES rc_entered, rc_returned

recallVars == <<rc_pc, rc_source_hash, rc_max_depth, rc_types, rc_roles, rc_blocks,
                rc_visited, rc_affected, rc_paths, rc_max_depth_seen, rc_queue,
                rc_entered, rc_returned>>

\* forward(hash_val, resolve_forward): the argument, the answer of the
\* resolver and the result
VARIABLES fw_pc, fw_hash_val, fw_children, fw_result

forwardVars == <<fw_pc, fw_hash_val, fw_children, fw_result>>

\* detect_conflict(hash_a, hash_b, resolve) and merge(hash_a, hash_b,
\* resolve, state, strategy): the function entered, the arguments, the store
\* behind resolve, the hashes resolve was called with, the locals of merge
\* and the result
VARIABLES mg_pc, mg_entered, mg_hash_a, mg_hash_b, mg_store, mg_state, mg_strategy,
          mg_calls, mg_block_a, mg_block_b, mg_derived, mg_result
\* what detect_conflict returns when it is called again with the two hashes
\* swapped
VARIABLES mg_swapped

mergeVars == <<mg_pc, mg_entered, mg_hash_a, mg_hash_b, mg_store, mg_state,
               mg_strategy, mg_calls, mg_block_a, mg_block_b, mg_derived, mg_result,
               mg_swapped>>

\* merkleize(state), selective_disclose(state, field_names) and
\* verify_proof(disclosed, proof, root): the arguments and what each returned
VARIABLES mk_pc, mk_state, mk_field_names, mk_tree, mk_disclosure, mk_tampered,
          mk_verified

merkleVars ==
    <<mk_pc, mk_state, mk_field_names, mk_tree, mk_disclosure, mk_tampered, mk_verified>>

\* compute_trust(actor_hash, blocks, policy): the corpus, the policy and the
\* results of the calls made so far
VARIABLES tr_pc, tr_blocks, tr_policy, tr_results

trustVars ==
    <<tr_pc, tr_blocks, tr_policy, tr_results>>

\* tree(start_hash, resolve, max_depth): the store behind resolve, the
\* argument max_depth, the set visited, the calls of build that have not
\* returned and the result
VARIABLES tt_pc, tt_store, tt_max_depth, tt_visited, tt_stack, tt_result

treeVars ==
    <<tt_pc, tt_store, tt_max_depth, tt_visited, tt_stack, tt_result>>

\* canonical(type_, state, refs) called on two inputs: the arguments and the
\* results of the calls made so far
VARIABLES cn_pc, cn_state, cn_refs, cn_results

canonicalVars ==
    <<cn_pc, cn_state, cn_refs, cn_results>>

\* OfflineQueue: the list _blocks, every block ever added, what a call of
\* sorted() returned, the batch of the sync in flight and the blocks of the
\* batches whose post succeeded
VARIABLES q_pc, q_blocks, q_added, q_sorted, q_batch, q_posted

queueVars ==
    <<q_pc, q_blocks, q_added, q_sorted, q_batch, q_posted>>

\* verify.py: the wrapper sign returned, the wrapper as it is now, and the two
\* calls of verify with the wrapper, the key and the verdict of each
VARIABLES vf_pc, vf_signed, vf_wrapper, vf_first, vf_second

verifyVars ==
    <<vf_pc, vf_signed, vf_wrapper, vf_first, vf_second>>

vars ==
    <<createVars, chainVars, headVars, recallVars, forwardVars, mergeVars,
      merkleVars, trustVars, treeVars, canonicalVars, queueVars, verifyVars>>

\* what a step of one function leaves alone: the state of the others
exceptCreate ==
    <<chainVars, headVars, recallVars, forwardVars, mergeVars, merkleVars,
      trustVars, treeVars, canonicalVars, queueVars, verifyVars>>
exceptChain ==
    <<createVars, headVars, recallVars, forwardVars, mergeVars, merkleVars,
      trustVars, treeVars, canonicalVars, queueVars, verifyVars>>
exceptHead ==
    <<createVars, chainVars, recallVars, forwardVars, mergeVars, merkleVars,
      trustVars, treeVars, canonicalVars, queueVars, verifyVars>>
exceptRecall ==
    <<createVars, chainVars, headVars, forwardVars, mergeVars, merkleVars,
      trustVars, treeVars, canonicalVars, queueVars, verifyVars>>
exceptForward ==
    <<createVars, chainVars, headVars, recallVars, mergeVars, merkleVars,
      trustVars, treeVars, canonicalVars, queueVars, verifyVars>>
exceptMerge ==
    <<createVars, chainVars, headVars, recallVars, forwardVars, merkleVars,
      trustVars, treeVars, canonicalVars, queueVars, verifyVars>>
exceptMerkle ==
    <<createVars, chainVars, headVars, recallVars, forwardVars, mergeVars,
      trustVars, treeVars, canonicalVars, queueVars, verifyVars>>
exceptTrust ==
    <<createVars, chainVars, headVars, recallVars, forwardVars, mergeVars,
      merkleVars, treeVars, canonicalVars, queueVars, verifyVars>>
exceptTree ==
    <<createVars, chainVars, headVars, recallVars, forwardVars, mergeVars,
      merkleVars, trustVars, canonicalVars, queueVars, verifyVars>>
exceptCanonical ==
    <<createVars, chainVars, headVars, recallVars, forwardVars, mergeVars,
      merkleVars, trustVars, treeVars, queueVars, verifyVars>>
exceptQueue ==
    <<createVars, chainVars, headVars, recallVars, forwardVars, mergeVars,
      merkleVars, trustVars, treeVars, canonicalVars, verifyVars>>
exceptVerify ==
    <<createVars, chainVars, headVars, recallVars, forwardVars, mergeVars,
      merkleVars, trustVars, treeVars, canonicalVars, queueVars>>

NotCalled == [called |-> FALSE]

SeqsUpTo(S, n) == UNION {[1..k -> S] : k \in 0..n}

\* the values uuid.uuid4() may return
UUIDs == {"u1", "u2"}

Types == {PyStr(""), PyStr("substance.product"), PyStr("transfer.order"),
          PyStr("observe.vocabulary")}

StateKeys == {"instance_id", "tags", "refs"}
ArrayElems == {None, PyStr("a"), PyStr("b")}
StateValues ==
    {None, PyStr("a"), PyInt(1)}
        \cup {PyList(l) : l \in SeqsUpTo(ArrayElems, MaxSize - 1)}

RefRoles == {"updates", "inputs"}
RefHashes == {PyStr("h1"), PyStr("h2")}
RefValues ==
    {None, PyStr("h1"), PyInt(1)}
        \cup {PyList(l) : l \in SeqsUpTo(RefHashes, MaxSize - 1)}

\* the size of an argument: one per key, one per array element
SizeOfValue(v) == IF IsList(v) THEN Len(v.elems) ELSE 0

RECURSIVE PairsWithin(_, _, _)
\* the key/value sequences over keys K and values V of size at most n, in
\* every insertion order
PairsWithin(K, V, n) ==
    {<<>>} \cup
    UNION {{<<<<k, v>>>> \o rest :
              rest \in PairsWithin(K \ {k}, V, n - 1 - SizeOfValue(v))} :
           k \in K, v \in {w \in V : 1 + SizeOfValue(w) <= n}}

SizeOfPairs(pairs) ==
    LET RECURSIVE Sum(_)
        Sum(i) == IF i = 0 THEN 0 ELSE 1 + SizeOfValue(pairs[i][2]) + Sum(i - 1)
    IN  Sum(Len(pairs))

\* a dict argument; the empty one may also be passed as None
ArgOf(pairs) == IF pairs = <<>> THEN {None, EmptyDict} ELSE {PyDict(pairs)}

CreateArgs ==
    UNION {UNION {ArgOf(sp) \X ArgOf(rp) :
                    rp \in PairsWithin(RefRoles, RefValues, MaxSize - SizeOfPairs(sp))} :
           sp \in PairsWithin(StateKeys, StateValues, MaxSize)}

PreviousHashes == {PyStr(""), PyStr("h2")}

Perms(n) == {f \in [1..n -> 1..n] : \A i, j \in 1..n : f[i] = f[j] => i = j}
Identity(n) == [i \in 1..n |-> i]
Reorderings(n) == Perms(n) \ {Identity(n)}
Permute(seq, f) == [i \in 1..Len(seq) |-> seq[f[i]]]

\* the dict written with its keys inserted in the order f
ReorderKeys(d, f) == IF IsDict(d) THEN PyDict(Permute(d.pairs, f)) ELSE d
NumKeys(d) == IF IsDict(d) THEN Len(d.pairs) ELSE 0

\* the dict with the array under its i-th key written in the order f
ReorderArray(d, i, f) ==
    PyDict([j \in 1..Len(d.pairs) |->
              IF j = i THEN <<d.pairs[j][1], PyList(Permute(d.pairs[j][2].elems, f))>>
              ELSE d.pairs[j]])

ArrayKeys(d) ==
    IF IsDict(d) THEN {i \in 1..Len(d.pairs) : IsList(d.pairs[i][2])} ELSE {}

\* no create call is made
IdleCreate ==
    /\ cr_pc = "idle"
    /\ cr_type = None
    /\ cr_state = None
    /\ cr_refs = None
    /\ cr_block = NotCalled
    /\ cr_variant = [kind |-> "none", key |-> ""]
    /\ cr_state2 = None
    /\ cr_refs2 = None
    /\ cr_block2 = NotCalled
    /\ cr_previous_hash = None

ArgumentsOfCreate ==
    /\ cr_pc = "start"
    /\ cr_type \in Types
    /\ \E a \in CreateArgs : cr_state = a[1] /\ cr_refs = a[2]
    /\ cr_block = NotCalled
    /\ cr_variant = [kind |-> "none", key |-> ""]
    /\ cr_state2 = None
    /\ cr_refs2 = None
    /\ cr_block2 = NotCalled
    /\ cr_previous_hash = None

\* block = create(type_, state, refs)
Create ==
    /\ cr_pc = "start"
    /\ \E uuid \in UUIDs : cr_block' = create(cr_type, cr_state, cr_refs, uuid)
    /\ cr_pc' = "created"
    /\ UNCHANGED <<cr_type, cr_state, cr_refs, cr_variant, cr_state2, cr_refs2,
                   cr_block2, cr_previous_hash>>
    /\ UNCHANGED exceptCreate

SecondCall(kind, key, state2, refs2) ==
    /\ cr_pc = "created"
    /\ \E uuid \in UUIDs : cr_block2' = create(cr_type, state2, refs2, uuid)
    /\ cr_variant' = [kind |-> kind, key |-> key]
    /\ cr_state2' = state2
    /\ cr_refs2' = refs2
    /\ cr_pc' = "again"
    /\ UNCHANGED <<cr_type, cr_state, cr_refs, cr_block, cr_previous_hash>>
    /\ UNCHANGED exceptCreate

\* the same call once more
CreateSame == SecondCall("same", "", cr_state, cr_refs)

\* the same call with the keys of state and refs inserted in another order
CreateKeysReordered ==
    \E f \in Perms(NumKeys(cr_state)), g \in Perms(NumKeys(cr_refs)) :
        /\ f # Identity(NumKeys(cr_state)) \/ g # Identity(NumKeys(cr_refs))
        /\ SecondCall("keys", "", ReorderKeys(cr_state, f), ReorderKeys(cr_refs, g))

\* the same call with the elements of one refs array in another order
CreateRefsArrayReordered ==
    \E i \in ArrayKeys(cr_refs) :
        \E f \in Reorderings(Len(cr_refs.pairs[i][2].elems)) :
            SecondCall("refs_array", cr_refs.pairs[i][1],
                       cr_state, ReorderArray(cr_refs, i, f))

\* the same call with the elements of one state array in another order
CreateStateArrayReordered ==
    \E i \in ArrayKeys(cr_state) :
        \E f \in Reorderings(Len(cr_state.pairs[i][2].elems)) :
            SecondCall("state_array", cr_state.pairs[i][1],
                       ReorderArray(cr_state, i, f), cr_refs)

\* block = update(previous_hash, type_, state, refs)
Update ==
    /\ cr_pc = "start"
    /\ \E previous_hash \in PreviousHashes, uuid \in UUIDs :
          /\ cr_block' = update(previous_hash, cr_type, cr_state, cr_refs, uuid)
          /\ cr_previous_hash' = previous_hash
    /\ cr_pc' = "updated"
    /\ UNCHANGED <<cr_type, cr_state, cr_refs, cr_variant, cr_state2, cr_refs2,
                   cr_block2>>
    /\ UNCHANGED exceptCreate

----------------------------------------------------------------------------
(***************************************************************************)
(* Blocks as the resolvers of the traversals return them.                  *)
(***************************************************************************)
Hashes == {"h1", "h2", "h3"}

\* a block dict {"hash", "type", "state", "refs"}
Block(h, type_, refs) ==
    [t |-> "block", hash |-> PyStr(h), type |-> PyStr(type_), state |-> EmptyDict,
     refs |-> refs]

\* block.get("refs", {})
BlockRefs(block) == block.refs

----------------------------------------------------------------------------
(***************************************************************************)
(* chain.py: chain(start_hash, resolve, max_depth).  One step is one turn  *)
(* of the while loop, with its single await of the resolver.               *)
(*                                                                         *)
(* The resolver is a lookup in a store that maps a hash to its block, as   *)
(* in the tests ("store"), or it answers every call with any block or with *)
(* None ("arbitrary"): what a store that is changed between the calls may  *)
(* answer.                                                                 *)
(***************************************************************************)
\* the refs.updates values of the stored blocks: a hash, or a list of hashes
UpdatesValues ==
    {PyStr(h) : h \in Hashes}
        \cup {PyList(<<>>)}
        \cup {PyList(<<PyStr(p[1]), PyStr(p[2])>>) :
                 p \in {q \in Hashes \X Hashes : q[1] # q[2]}}

ChainRefs == {EmptyDict} \cup {PyDict(<< <<"updates", v>> >>) : v \in UpdatesValues}

\* the stores {b["hash"]: b for b in blocks}: store[h] is what store.get(h)
\* returns, the block of hash h or None
Stores ==
    {[h \in Hashes |-> IF f[h] = None THEN None
                       ELSE Block(h, "substance.product", f[h])] :
       f \in [Hashes -> {None} \cup ChainRefs]}
EmptyStore == [h \in Hashes |-> None]

\* what resolve(hash_) may return
ResolveAnswers(hash_) ==
    IF ch_resolver = "store" THEN {ch_store[hash_.s]}
    ELSE {None} \cup {Block(h, "substance.product", r) : h \in Hashes, r \in ChainRefs}

IdleChain ==
    /\ ch_pc = "idle"
    /\ ch_start_hash = None
    /\ ch_max_depth = 0
    /\ ch_resolver = "store"
    /\ ch_store = EmptyStore
    /\ ch_visited = {}
    /\ ch_result = <<>>
    /\ ch_current = None
    /\ ch_depth = 0
    /\ ch_calls = <<>>
    /\ ch_answers = <<>>

\* the state on entry to the loop (chain.py:13-16)
EnterChain ==
    /\ ch_pc = "loop"
    /\ ch_start_hash \in {PyStr(h) : h \in Hashes}
    /\ ch_max_depth \in 0..MaxDepth
    /\ \/ ch_resolver = "store" /\ ch_store \in Stores
       \/ ch_resolver = "arbitrary" /\ ch_store = EmptyStore
    /\ ch_visited = {}
    /\ ch_result = <<>>
    /\ ch_current = ch_start_hash
    /\ ch_depth = 0
    /\ ch_calls = <<>>
    /\ ch_answers = <<>>

\* the loop condition with the bound off by one
ChainContinues_OneMore(current, depth, max_depth) ==
    Truthy(current) /\ depth <= max_depth

\* while current and depth < max_depth
ChainContinues(current, depth, max_depth) ==
    Truthy(current) /\ depth < max_depth

\* the cycle guard left out
ChainSeen_Never(current, visited) == FALSE

\* if current in visited
ChainSeen(current, visited) == current \in visited

\* the updates entry a hop follows: updates[0] of a list, None of an empty
\* list, else the entry itself
NextOfUpdates(updates) ==
    IF IsList(updates)
    THEN (IF Truthy(updates) THEN updates.elems[1] ELSE None)
    ELSE updates

\* a turn of the loop that awaits resolve(current)
ChainResolve ==
    /\ ch_pc = "loop"
    /\ ChainContinues(ch_current, ch_depth, ch_max_depth)
    /\ ~ChainSeen(ch_current, ch_visited)
    /\ ch_visited' = ch_visited \cup {ch_current}
    /\ ch_calls' = Append(ch_calls, ch_current)
    /\ \E block \in ResolveAnswers(ch_current) :
          /\ ch_answers' = Append(ch_answers, block)
          /\ IF ~Truthy(block)
             THEN /\ ch_pc' = "done"
                  /\ UNCHANGED <<ch_result, ch_current, ch_depth>>
             ELSE /\ ch_result' = Append(ch_result, block)
                  /\ ch_current' = NextOfUpdates(Get(BlockRefs(block), "updates"))
                  /\ ch_depth' = ch_depth + 1
                  /\ ch_pc' = "loop"
    /\ UNCHANGED <<ch_start_hash, ch_max_depth, ch_resolver, ch_store>>
    /\ UNCHANGED exceptChain

\* the loop ends: current is empty, max_depth is reached, or current was
\* visited; chain returns result
ChainReturn ==
    /\ ch_pc = "loop"
    /\ \/ ~ChainContinues(ch_current, ch_depth, ch_max_depth)
       \/ ChainSeen(ch_current, ch_visited)
    /\ ch_pc' = "done"
    /\ UNCHANGED <<ch_start_hash, ch_max_depth, ch_resolver, ch_store,
                   ch_visited, ch_result, ch_current, ch_depth, ch_calls, ch_answers>>
    /\ UNCHANGED exceptChain

----------------------------------------------------------------------------
(***************************************************************************)
(* The resolve_forward of the tests: an index from each hash to the blocks *)
(* whose refs mention it (tests/test_forward.py, build_forward_index and   *)
(* make_resolver).                                                         *)
(***************************************************************************)
RECURSIVE Flatten(_)
Flatten(seqs) == IF seqs = <<>> THEN <<>> ELSE Head(seqs) \o Flatten(Tail(seqs))

\* hashes = ref if isinstance(ref, list) else [ref]
HashesOfRef(ref) == IF IsList(ref) THEN ref.elems ELSE <<ref>>

\* the hashes a block mentions, role by role, with repetitions
Mentions(block) ==
    LET pairs == BlockRefs(block).pairs
    IN  Flatten([i \in 1..Len(pairs) |-> HashesOfRef(pairs[i][2])])

\* build_forward_index(blocks).get(hash_, []): a block is appended once for
\* each time it mentions hash_
resolve_forward(blocks, hash_) ==
    Flatten([i \in 1..Len(blocks) |->
               [j \in 1..Len(SelectSeq(Mentions(blocks[i]), LAMBDA m : m = hash_)) |->
                  blocks[i]]])

----------------------------------------------------------------------------
(***************************************************************************)
(* chain.py: head(start_hash, resolve_forward).  One step is one turn of   *)
(* the while loop, with its single await of the resolver.                  *)
(***************************************************************************)
HeadRefs ==
    {EmptyDict}
        \cup {PyDict(<< <<"updates", v>> >>) : v \in UpdatesValues \ {PyList(<<>>)}}
        \cup {PyDict(<< <<"inputs", PyStr(h)>> >>) : h \in Hashes}

\* the blocks of a store, at most one for each hash, in the order stored
BlockLists ==
    {LET present == SelectSeq(<<"h1", "h2", "h3">>, LAMBDA h : f[h] # None)
     IN  [i \in 1..Len(present) |->
            Block(present[i], "substance.product", f[present[i]])] :
       f \in [Hashes -> {None} \cup HeadRefs]}

IdleHead ==
    /\ hd_pc = "idle"
    /\ hd_start_hash = None
    /\ hd_max_depth = None
    /\ hd_blocks = <<>>
    /\ hd_current = None

\* a caller about to call head(start_hash, resolve_forward) or
\* head(start_hash, resolve_forward, max_depth=k)
CallerOfHead ==
    /\ hd_pc = "call"
    /\ hd_start_hash \in {PyStr(h) : h \in Hashes}
    /\ hd_max_depth \in {None} \cup {PyInt(k) : k \in 1..MaxDepth}
    /\ hd_blocks \in BlockLists
    /\ hd_current = None

\* the call binds its arguments: head has the parameters start_hash and
\* resolve_forward only, a max_depth argument is a TypeError
HeadCall ==
    /\ hd_pc = "call"
    /\ IF hd_max_depth # None
       THEN hd_pc' = "raised" /\ UNCHANGED hd_current
       ELSE hd_pc' = "loop" /\ hd_current' = hd_start_hash
    /\ UNCHANGED <<hd_start_hash, hd_max_depth, hd_blocks>>
    /\ UNCHANGED exceptHead

\* the child references current in some role
IsUpdaterOf_AnyRole(child, current) ==
    \E i \in 1..Len(Mentions(child)) : Mentions(child)[i] = current

\* the test of the for loop: refs.updates contains or equals current
IsUpdaterOf(child, current) ==
    LET updates == Get(BlockRefs(child), "updates")
    IN  IF IsList(updates)
        THEN \E i \in 1..Len(updates.elems) : updates.elems[i] = current
        ELSE updates = current

\* the updater the for loop breaks on: the first child that updates
\* current; None when there is none
FirstUpdater(children, current) ==
    LET found == SelectSeq(children, LAMBDA child : IsUpdaterOf(child, current))
    IN  IF found = <<>> THEN None ELSE found[1]

\* a turn of the loop that finds an updater: current = updater["hash"]
HeadForward ==
    /\ hd_pc = "loop"
    /\ LET updater == FirstUpdater(resolve_forward(hd_blocks, hd_current), hd_current)
       IN  /\ Truthy(updater)
           /\ hd_current' = updater.hash
    /\ UNCHANGED <<hd_pc, hd_start_hash, hd_max_depth, hd_blocks>>
    /\ UNCHANGED exceptHead

\* a turn of the loop that finds no updater: head returns current
HeadReturn ==
    /\ hd_pc = "loop"
    /\ ~Truthy(FirstUpdater(resolve_forward(hd_blocks, hd_current), hd_current))
    /\ hd_pc' = "done"
    /\ UNCHANGED <<hd_start_hash, hd_max_depth, hd_blocks, hd_current>>
    /\ UNCHANGED exceptHead

----------------------------------------------------------------------------
(***************************************************************************)
(* forward.py: recall(source_hash, resolve_forward, max_depth, types,      *)
(* roles).  One step is one turn of the while loop: an entry is popped     *)
(* from the queue and, below max_depth, resolve_forward is awaited and its *)
(* answer is worked through.                                               *)
(***************************************************************************)
SourceHash == "h0"
RecallHashes == Hashes \cup {SourceHash}

\* the refs of a stored block of hash h: none, one or two references to
\* other blocks, as inputs (a list) or as updates (a hash)
RecallRefs(h) ==
    LET others == RecallHashes \ {h}
    IN  {EmptyDict}
          \cup {PyDict(<< <<"inputs", PyList(<<PyStr(x)>>)>> >>) : x \in others}
          \cup {PyDict(<< <<"updates", PyStr(x)>> >>) : x \in others}
          \cup {PyDict(<< <<"inputs", PyList(<<PyStr(p[1]), PyStr(p[2])>>)>> >>) :
                  p \in {q \in others \X others : StrLess(q[1], q[2])}}
          \cup {PyDict(<< <<"updates", PyStr(x)>>, <<"inputs", PyList(<<PyStr(x)>>)>> >>) :
                  x \in others}

\* the references of the block of the source hash, when one is stored
SourceRefs ==
    {PyDict(<< <<"inputs", PyList(<<PyStr(x)>>)>> >>) : x \in Hashes}

RecallTypes(h) ==
    IF h = "h1" THEN {"substance.product", "transform.process"}
    ELSE IF h = "h2" THEN {"transform.process"}
    ELSE {"substance.flour"}

\* the number of references of a block
NumMentions(refs) ==
    LET RECURSIVE Sum(_)
        Sum(i) == IF i = 0 THEN 0
                  ELSE Len(HashesOfRef(refs.pairs[i][2])) + Sum(i - 1)
    IN  Sum(Len(refs.pairs))

\* the stores: the blocks h1, h2, h3 and possibly a block of the source
\* hash, in this order, with at most MaxMentions references in all
RecallStores ==
    {LET present == SelectSeq(<<"h1", "h2", "h3", SourceHash>>,
                              LAMBDA h : h \in Hashes \/ f[h] # None)
     IN  [i \in 1..Len(present) |-> Block(present[i], ty[present[i]], f[present[i]])] :
       f \in {g \in [h1 : RecallRefs("h1"), h2 : RecallRefs("h2"),
                     h3 : RecallRefs("h3"), h0 : {None} \cup SourceRefs] :
                NumMentions(g.h1) + NumMentions(g.h2) + NumMentions(g.h3)
                  + (IF g.h0 = None THEN 0 ELSE 1) <= MaxMentions},
       ty \in [h1 : RecallTypes("h1"), h2 : RecallTypes("h2"),
               h3 : RecallTypes("h3"), h0 : RecallTypes("h0")]}

IdleRecall ==
    /\ rc_pc = "idle"
    /\ rc_source_hash = None
    /\ rc_max_depth = 0
    /\ rc_types = None
    /\ rc_roles = None
    /\ rc_blocks = <<>>
    /\ rc_visited = {}
    /\ rc_affected = <<>>
    /\ rc_paths = <<>>
    /\ rc_max_depth_seen = 0
    /\ rc_queue = <<>>
    /\ rc_entered = "none"
    /\ rc_returned = None

\* downstream calls recall with types=["substance"]
DownstreamTypes == PyList(<<PyStr("substance")>>)

\* the state on entry to the loop (forward.py:63-70), for a call of recall
\* and for the call downstream makes
EnterRecall ==
    /\ rc_pc = "loop"
    /\ rc_source_hash = PyStr(SourceHash)
    /\ rc_max_depth \in 0..MaxDepth
    /\ rc_entered \in {"recall", "downstream"}
    /\ rc_returned = None
    /\ IF rc_entered = "recall"
       THEN /\ rc_types \in {None, PyList(<<PyStr("substance")>>)}
            /\ rc_roles \in {None, PyList(<<PyStr("inputs")>>)}
       ELSE /\ rc_types = DownstreamTypes
            /\ rc_roles = None
    /\ rc_blocks \in RecallStores
    /\ rc_visited = {rc_source_hash}
    /\ rc_affected = <<>>
    /\ rc_paths = <<>>
    /\ rc_max_depth_seen = 0
    /\ rc_queue = << <<rc_source_hash, 0, <<rc_source_hash>> >> >>

\* x in list
InList(x, list) == \E i \in 1..Len(list.elems) : list.elems[i] = x

\* the visited set never consulted
AlreadyVisited_Never(block_hash, visited) == FALSE

\* block_hash in visited
AlreadyVisited(block_hash, visited) == block_hash \in visited

\* the roles filter never consulted
Matched_AnyRole(refs, current_hash, roles) ==
    \E i \in 1..Len(refs.pairs) :
        \E j \in 1..Len(HashesOfRef(refs.pairs[i][2])) :
            HashesOfRef(refs.pairs[i][2])[j] = current_hash

\* the loop over refs.items(): some role holds current_hash and passes the
\* roles filter
Matched(refs, current_hash, roles) ==
    \E i \in 1..Len(refs.pairs) :
        /\ \E j \in 1..Len(HashesOfRef(refs.pairs[i][2])) :
              HashesOfRef(refs.pairs[i][2])[j] = current_hash
        /\ ~(Truthy(roles) /\ ~InList(PyStr(refs.pairs[i][1]), roles))

\* the types filter never consulted
FilteredOut_Never(block_type, types) == FALSE

\* types is given and block_type starts with none of its prefixes
FilteredOut(block_type, types) ==
    /\ Truthy(types)
    /\ ~\E i \in 1..Len(types.elems) : startswith(block_type.s, types.elems[i].s)

\* the locals after the body of the for loop has run for one child
VisitChild(loc, block, current_hash, depth, path, types, roles) ==
    LET block_hash == block.hash
    IN  IF ~Truthy(block_hash) \/ AlreadyVisited(block_hash, loc.visited) THEN loc
        ELSE IF ~Matched(BlockRefs(block), current_hash, roles) THEN loc
        ELSE LET new_path == Append(path, block_hash)
                 next_depth == depth + 1
                 entry == <<block_hash, next_depth, new_path>>
             IN  IF FilteredOut(block.type, types)
                 THEN [loc EXCEPT !.visited = @ \cup {block_hash},
                                  !.queue = Append(@, entry)]
                 ELSE [loc EXCEPT !.visited = @ \cup {block_hash},
                                  !.affected = Append(@, block),
                                  !.paths = Append(@, new_path),
                                  !.max_depth_seen =
                                      IF next_depth > @ THEN next_depth ELSE @,
                                  !.queue = Append(@, entry)]

RECURSIVE VisitChildren(_, _, _, _, _, _, _)
\* for block in children: ...
VisitChildren(loc, children, current_hash, depth, path, types, roles) ==
    IF children = <<>> THEN loc
    ELSE VisitChildren(VisitChild(loc, Head(children), current_hash, depth, path,
                                  types, roles),
                       Tail(children), current_hash, depth, path, types, roles)

\* the popped entry is expanded one hop too far
AtMaxDepth_OneMore(depth, max_depth) == depth > max_depth

\* depth >= max_depth
AtMaxDepth(depth, max_depth) == depth >= max_depth

\* a turn of the loop that pops an entry at max_depth: continue
RecallSkip ==
    /\ rc_pc = "loop"
    /\ rc_queue # <<>>
    /\ AtMaxDepth(Head(rc_queue)[2], rc_max_depth)
    /\ rc_queue' = Tail(rc_queue)
    /\ UNCHANGED <<rc_pc, rc_source_hash, rc_max_depth, rc_types, rc_roles, rc_blocks,
                   rc_visited, rc_affected, rc_paths, rc_max_depth_seen,
                   rc_entered, rc_returned>>
    /\ UNCHANGED exceptRecall

\* a turn of the loop that pops an entry below max_depth and works through
\* the children resolve_forward returns
RecallExpand ==
    /\ rc_pc = "loop"
    /\ rc_queue # <<>>
    /\ ~AtMaxDepth(Head(rc_queue)[2], rc_max_depth)
    /\ LET current_hash == Head(rc_queue)[1]
           depth == Head(rc_queue)[2]
           path == Head(rc_queue)[3]
           children == resolve_forward(rc_blocks, current_hash)
           loc == VisitChildren([visited |-> rc_visited, affected |-> rc_affected,
                                 paths |-> rc_paths,
                                 max_depth_seen |-> rc_max_depth_seen,
                                 queue |-> Tail(rc_queue)],
                                children, current_hash, depth, path,
                                rc_types, rc_roles)
       IN  /\ rc_visited' = loc.visited
           /\ rc_affected' = loc.affected
           /\ rc_paths' = loc.paths
           /\ rc_max_depth_seen' = loc.max_depth_seen
           /\ rc_queue' = loc.queue
    /\ UNCHANGED <<rc_pc, rc_source_hash, rc_max_depth, rc_types, rc_roles, rc_blocks,
                   rc_entered, rc_returned>>
    /\ UNCHANGED exceptRecall

\* {"affected": affected, "depth": max_depth_seen, "paths": paths}
RecallResult(affected, max_depth_seen, paths) ==
    [affected |-> affected, depth |-> max_depth_seen, paths |-> paths]

\* recall(source_hash, resolve_forward, max_depth, types, roles) run to its
\* return, over the resolver of the stored blocks
recall(blocks, source_hash, max_depth, types, roles) ==
    LET RECURSIVE Loop(_)
        Loop(loc) ==
            IF loc.queue = <<>>
            THEN RecallResult(loc.affected, loc.max_depth_seen, loc.paths)
            ELSE LET entry == Head(loc.queue)
                     popped == [loc EXCEPT !.queue = Tail(@)]
                 IN  IF AtMaxDepth(entry[2], max_depth) THEN Loop(popped)
                     ELSE Loop(VisitChildren(popped,
                                             resolve_forward(blocks, entry[1]),
                                             entry[1], entry[2], entry[3],
                                             types, roles))
    IN  Loop([visited |-> {source_hash}, affected |-> <<>>, paths |-> <<>>,
              max_depth_seen |-> 0,
              queue |-> << <<source_hash, 0, <<source_hash>> >> >>])

\* the queue is empty: recall returns affected, max_depth_seen and paths, and
\* downstream returns result["affected"]
RecallReturn ==
    /\ rc_pc = "loop"
    /\ rc_queue = <<>>
    /\ rc_pc' = "done"
    /\ LET result == RecallResult(rc_affected, rc_max_depth_seen, rc_paths)
       IN  rc_returned' = IF rc_entered = "downstream" THEN result.affected
                          ELSE result
    /\ UNCHANGED <<rc_source_hash, rc_max_depth, rc_types, rc_roles, rc_blocks,
                   rc_visited, rc_affected, rc_paths, rc_max_depth_seen, rc_queue,
                   rc_entered>>
    /\ UNCHANGED exceptRecall

----------------------------------------------------------------------------
(***************************************************************************)
(* forward.py: forward(hash_val, resolve_forward), over a resolver that    *)
(* may answer with malformed nodes: blocks without hash, without refs or   *)
(* with refs null.                                                         *)
(***************************************************************************)
\* dict.get(key, default)
DictGet(dict, key, default) == IF key \in DOMAIN dict THEN dict[key] ELSE default

\* a key the dict does not have
Missing == [missing |-> TRUE]

\* a node as a resolver returns it: hash and refs may be missing
Node(hash_, refs) ==
    LET base == [t |-> "block", type |-> PyStr("substance.product"), state |-> EmptyDict]
        withHash == IF hash_ = Missing THEN base
                    ELSE [x \in DOMAIN base \cup {"hash"} |->
                            IF x = "hash" THEN hash_ ELSE base[x]]
    IN  IF refs = Missing THEN withHash
        ELSE [x \in DOMAIN withHash \cup {"refs"} |->
                IF x = "refs" THEN refs ELSE withHash[x]]

NodeRefs ==
    {Missing, None, EmptyDict,
     PyDict(<< <<"inputs", PyList(<<PyStr(SourceHash)>>)>> >>),
     PyDict(<< <<"updates", PyStr(SourceHash)>>, <<"inputs", PyList(<<PyStr(SourceHash)>>)>> >>),
     PyDict(<< <<"inputs", PyList(<<PyStr("h1")>>)>> >>)}

Nodes == {Node(h, r) : h \in {Missing, PyStr("h1"), PyStr("h2")}, r \in NodeRefs}

IdleForward ==
    /\ fw_pc = "idle"
    /\ fw_hash_val = None
    /\ fw_children = <<>>
    /\ fw_result = None

CallerOfForward ==
    /\ fw_pc = "called"
    /\ fw_hash_val = PyStr(SourceHash)
    /\ fw_children = <<>>
    /\ fw_result = None

\* children = await resolve_forward(hash_val): the resolver answers with a
\* list of nodes, empty on a miss
ForwardResolve ==
    /\ fw_pc = "called"
    /\ fw_children' \in SeqsUpTo(Nodes, MaxChildren)
    /\ fw_pc' = "resolved"
    /\ UNCHANGED <<fw_hash_val, fw_result>>
    /\ UNCHANGED exceptForward

\* refs.items() of a child, or the AttributeError it raises on None
RefsItems(refs) ==
    IF IsDict(refs) THEN [items |-> refs.pairs] ELSE Raise("AttributeError")

RECURSIVE Referencing(_, _)
\* the for loop over children: the entries appended to referencing, or the
\* exception that ends the loop
Referencing(children, hash_val) ==
    IF children = <<>> THEN [referencing |-> <<>>]
    ELSE LET block == Head(children)
             refs == RefsItems(DictGet(block, "refs", EmptyDict))
         IN  IF Raised(refs) THEN refs
             ELSE LET rest == Referencing(Tail(children), hash_val)
                      holding == SelectSeq(refs.items, LAMBDA item :
                                     \E j \in 1..Len(HashesOfRef(item[2])) :
                                         HashesOfRef(item[2])[j] = hash_val)
                  IN  IF Raised(rest) THEN rest
                      ELSE [referencing |->
                              [i \in 1..Len(holding) |->
                                  [block |-> block, role |-> holding[i][1]]]
                                \o rest.referencing]

\* the loop and the return of {"referencing": referencing, "count": len(referencing)}
ForwardCollect ==
    /\ fw_pc = "resolved"
    /\ LET collected == Referencing(fw_children, fw_hash_val)
       IN  IF Raised(collected)
           THEN /\ fw_pc' = "raised"
                /\ fw_result' = collected
           ELSE /\ fw_pc' = "done"
                /\ fw_result' = [referencing |-> collected.referencing,
                                 count |-> Len(collected.referencing)]
    /\ UNCHANGED <<fw_hash_val, fw_children>>
    /\ UNCHANGED exceptForward

----------------------------------------------------------------------------
(***************************************************************************)
(* merge.py: detect_conflict and merge, over a resolver that looks the     *)
(* hash up in a store.  detect_conflict is one step; merge resolves the    *)
(* two blocks, derives the state, and then calls detect_conflict and       *)
(* create.                                                                 *)
(***************************************************************************)
WalkMaxDepth == 100

\* the refs of a stored block of hash h: it updates nothing or another block
MergeRefs(h) ==
    {EmptyDict}
      \cup {PyDict(<< <<"updates", PyStr(g)>> >>) : g \in Hashes \ {h}}
      \cup {PyDict(<< <<"updates", PyList(<<PyStr(g)>>)>> >>) :
              g \in {x \in Hashes \ {h} : \A y \in Hashes \ {h} : ~StrLess(y, x)}}

\* the states of a stored block of hash h
MergeStates(h) ==
    IF h = "h1"
    THEN {PyDict(<< <<"price", PyInt(4)>> >>),
          PyDict(<< <<"price", PyInt(5)>>, <<"note", None>> >>),
          PyDict(<< <<"_merge", PyStr("m")>>, <<"instance_id", PyStr("i1")>> >>)}
    ELSE IF h = "h2"
    THEN {PyDict(<< <<"price", PyInt(5)>>, <<"name", PyStr("a")>> >>)}
    ELSE {PyDict(<< <<"price", PyInt(6)>> >>)}

\* the stores: store[h] is what resolve(h) returns, the block of hash h or None
MergeStores ==
    {[h \in Hashes |-> IF r[h] = None THEN None
                       ELSE [Block(h, "substance.product", r[h]) EXCEPT !.state = st[h]]] :
       r \in [h1 : {None} \cup MergeRefs("h1"), h2 : {None} \cup MergeRefs("h2"),
              h3 : {None} \cup MergeRefs("h3")],
       st \in [h1 : MergeStates("h1"), h2 : MergeStates("h2"), h3 : MergeStates("h3")]}

Strategies == {PyStr("a_wins"), PyStr("b_wins"), PyStr("manual"), PyStr("newest")}

ExplicitStates == {None, PyDict(<< <<"price", PyInt(7)>> >>)}

IdleMerge ==
    /\ mg_pc = "idle"
    /\ mg_entered = "none"
    /\ mg_hash_a = None
    /\ mg_hash_b = None
    /\ mg_store = EmptyStore
    /\ mg_state = None
    /\ mg_strategy = None
    /\ mg_calls = <<>>
    /\ mg_block_a = None
    /\ mg_block_b = None
    /\ mg_derived = None
    /\ mg_result = None
    /\ mg_swapped = None

CallerOfMerge ==
    /\ mg_pc = "called"
    /\ mg_entered \in {"detect_conflict", "merge"}
    /\ mg_hash_a \in {PyStr(h) : h \in Hashes}
    /\ mg_hash_b \in {PyStr(h) : h \in Hashes}
    /\ mg_store \in MergeStores
    /\ IF mg_entered = "merge"
       THEN mg_state \in ExplicitStates /\ mg_strategy \in Strategies
       ELSE mg_state = None /\ mg_strategy = None
    /\ mg_calls = <<>>
    /\ mg_block_a = None
    /\ mg_block_b = None
    /\ mg_derived = None
    /\ mg_result = None
    /\ mg_swapped = None

RECURSIVE WalkFrom(_, _, _, _)
\* the while loop of _walk_chain: the blocks appended to result and the
\* hashes resolve is called with, from current on
WalkFrom(store, current, depth, visited) ==
    IF ~(Truthy(current) /\ depth < WalkMaxDepth) \/ current \in visited
    THEN [result |-> <<>>, calls |-> <<>>]
    ELSE LET block == store[current.s]
         IN  IF ~Truthy(block) THEN [result |-> <<>>, calls |-> <<current>>]
             ELSE LET updates == Get(BlockRefs(block), "updates")
                      rest == WalkFrom(store, NextOfUpdates(updates), depth + 1,
                                       visited \cup {current})
                  IN  [result |-> <<block>> \o rest.result,
                       calls |-> <<current>> \o rest.calls]

\* _walk_chain(start_hash, resolve)
_walk_chain(store, start_hash) == WalkFrom(store, start_hash, 0, {})

\* the hash of the first block of the chain that is in hashes, or None
FirstIn(chain_blocks, hashes) ==
    LET found == SelectSeq(chain_blocks, LAMBDA block : block.hash \in hashes)
    IN  IF found = <<>> THEN None ELSE found[1].hash

\* _trim_to_ancestor(chain_blocks, ancestor_hash)
_trim_to_ancestor(chain_blocks, ancestor_hash) ==
    IF ancestor_hash = None THEN chain_blocks
    ELSE LET at == {i \in 1..Len(chain_blocks) : chain_blocks[i].hash = ancestor_hash}
         IN  IF at = {} THEN chain_blocks
             ELSE SubSeq(chain_blocks, 1, CHOOSE i \in at : \A j \in at : i <= j)

\* the test that neither hash is on the other's chain left out
IsConflict_AncestorOnly(common_ancestor, hash_a, hash_b, hashes_a, hashes_b) ==
    common_ancestor # None

\* common_ancestor is not None and hash_a not in hashes_b and hash_b not in hashes_a
IsConflict(common_ancestor, hash_a, hash_b, hashes_a, hashes_b) ==
    /\ common_ancestor # None
    /\ hash_a \notin hashes_b
    /\ hash_b \notin hashes_a

\* detect_conflict(hash_a, hash_b, resolve): the dict it returns, and the
\* hashes it calls resolve with
detect_conflict(store, hash_a, hash_b) ==
    IF hash_a = hash_b
    THEN LET block == store[hash_a.s]
         IN  [is_conflict |-> FALSE, common_ancestor |-> hash_a,
              chain_a |-> IF Truthy(block) THEN <<block>> ELSE <<>>,
              chain_b |-> IF Truthy(block) THEN <<block>> ELSE <<>>,
              calls |-> <<hash_a>>]
    ELSE LET walk_a == _walk_chain(store, hash_a)
             walk_b == _walk_chain(store, hash_b)
             chain_a == walk_a.result
             chain_b == walk_b.result
             hashes_a == {chain_a[i].hash : i \in 1..Len(chain_a)}
             hashes_b == {chain_b[i].hash : i \in 1..Len(chain_b)}
             from_a == FirstIn(chain_a, hashes_b)
             common_ancestor == IF from_a = None THEN FirstIn(chain_b, hashes_a)
                                ELSE from_a
         IN  [is_conflict |-> IsConflict(common_ancestor, hash_a, hash_b,
                                         hashes_a, hashes_b),
              common_ancestor |-> common_ancestor,
              chain_a |-> _trim_to_ancestor(chain_a, common_ancestor),
              chain_b |-> _trim_to_ancestor(chain_b, common_ancestor),
              calls |-> walk_a.calls \o walk_b.calls]

\* a call of detect_conflict
DetectConflict ==
    /\ mg_pc = "called"
    /\ mg_entered = "detect_conflict"
    /\ LET conflict == detect_conflict(mg_store, mg_hash_a, mg_hash_b)
       IN  /\ mg_result' = [x \in DOMAIN conflict \ {"calls"} |-> conflict[x]]
           /\ mg_calls' = mg_calls \o conflict.calls
    /\ mg_pc' = "done"
    /\ UNCHANGED <<mg_entered, mg_hash_a, mg_hash_b, mg_store, mg_state, mg_strategy,
                   mg_block_a, mg_block_b, mg_derived>>
    /\ UNCHANGED mg_swapped
    /\ UNCHANGED exceptMerge

\* a second call of detect_conflict, with the two hashes swapped
DetectConflictSwapped ==
    /\ mg_pc = "done"
    /\ mg_entered = "detect_conflict"
    /\ LET conflict == detect_conflict(mg_store, mg_hash_b, mg_hash_a)
       IN  /\ mg_swapped' = [x \in DOMAIN conflict \ {"calls"} |-> conflict[x]]
           /\ mg_calls' = mg_calls \o conflict.calls
    /\ mg_pc' = "swapped"
    /\ UNCHANGED <<mg_entered, mg_hash_a, mg_hash_b, mg_store, mg_state, mg_strategy,
                   mg_block_a, mg_block_b, mg_derived, mg_result>>
    /\ UNCHANGED exceptMerge

\* block_a = resolve(hash_a); block_b = resolve(hash_b)
MergeResolveBlocks ==
    /\ mg_pc = "called"
    /\ mg_entered = "merge"
    /\ mg_block_a' = mg_store[mg_hash_a.s]
    /\ mg_block_b' = mg_store[mg_hash_b.s]
    /\ mg_calls' = mg_calls \o <<mg_hash_a, mg_hash_b>>
    /\ mg_pc' = "resolved"
    /\ UNCHANGED <<mg_entered, mg_hash_a, mg_hash_b, mg_store, mg_state, mg_strategy,
                   mg_derived, mg_result>>
    /\ UNCHANGED mg_swapped
    /\ UNCHANGED exceptMerge

\* dict(block.get('state', {})) if block else {}
StateOf(block) == IF Truthy(block) THEN block.state ELSE EmptyDict

RECURSIVE DictUpdate(_, _)
\* {**under, **over}
DictUpdate(under, over) ==
    IF over.pairs = <<>> THEN under
    ELSE DictUpdate(DictSet(under, over.pairs[1][1], over.pairs[1][2]),
                    PyDict(Tail(over.pairs)))

\* a_wins takes the state of block B
DeriveState_BForA(state, strategy, block_a, block_b) ==
    IF state # None THEN state
    ELSE IF strategy = PyStr("a_wins") THEN StateOf(block_b)
    ELSE IF strategy = PyStr("b_wins") THEN StateOf(block_b)
    ELSE IF strategy = PyStr("manual") THEN DictUpdate(StateOf(block_b), StateOf(block_a))
    ELSE Raise("ValueError")

\* if state is None: the state the strategy derives, or ValueError
DeriveState(state, strategy, block_a, block_b) ==
    IF state # None THEN state
    ELSE IF strategy = PyStr("a_wins") THEN StateOf(block_a)
    ELSE IF strategy = PyStr("b_wins") THEN StateOf(block_b)
    ELSE IF strategy = PyStr("manual") THEN DictUpdate(StateOf(block_b), StateOf(block_a))
    ELSE Raise("ValueError")

\* the state is derived from the strategy, or the unknown strategy is refused
MergeDeriveState ==
    /\ mg_pc = "resolved"
    /\ LET state == DeriveState(mg_state, mg_strategy, mg_block_a, mg_block_b)
       IN  IF Raised(state)
           THEN /\ mg_pc' = "raised"
                /\ mg_result' = state
                /\ UNCHANGED mg_derived
           ELSE /\ mg_pc' = "derived"
                /\ mg_derived' = state
                /\ UNCHANGED mg_result
    /\ UNCHANGED <<mg_entered, mg_hash_a, mg_hash_b, mg_store, mg_state, mg_strategy,
                   mg_calls, mg_block_a, mg_block_b>>
    /\ UNCHANGED mg_swapped
    /\ UNCHANGED exceptMerge

\* {**state, '_merge': {'strategy', 'is_conflict', 'common_ancestor'}}
MergeState(state, strategy, conflict) ==
    DictSet(state, "_merge",
            PyDict(<< <<"strategy", strategy>>,
                      <<"is_conflict", PyBool(conflict.is_conflict)>>,
                      <<"common_ancestor", conflict.common_ancestor>> >>))

\* conflict = detect_conflict(...); return create('observe.merge', merge_state,
\* {'merge_a': hash_a, 'merge_b': hash_b})
MergeCreate ==
    /\ mg_pc = "derived"
    /\ LET conflict == detect_conflict(mg_store, mg_hash_a, mg_hash_b)
       IN  /\ mg_calls' = mg_calls \o conflict.calls
           /\ \E uuid \in UUIDs :
                 mg_result' = create(PyStr("observe.merge"),
                                     MergeState(mg_derived, mg_strategy, conflict),
                                     PyDict(<< <<"merge_a", mg_hash_a>>,
                                               <<"merge_b", mg_hash_b>> >>),
                                     uuid)
    /\ mg_pc' = "done"
    /\ UNCHANGED <<mg_entered, mg_hash_a, mg_hash_b, mg_store, mg_state, mg_strategy,
                   mg_block_a, mg_block_b, mg_derived>>
    /\ UNCHANGED mg_swapped
    /\ UNCHANGED exceptMerge

----------------------------------------------------------------------------
(***************************************************************************)
(* merkle.py: merkleize, selective_disclose and verify_proof.  A caller    *)
(* merkleizes a state, discloses some of its fields, and verifies the      *)
(* proof it was given.                                                     *)
(***************************************************************************)
FieldNames == <<"a", "b", "c", "d", "e", "f", "g">>

\* json.dumps of a field value
JsonValue(value) ==
    CASE value.t = "none" -> "null"
      [] value.t = "bool" -> IF value.b THEN "true" ELSE "false"
      [] value.t = "int" -> IntToStr(value.n)
      [] value.t = "str" -> "\"" \o value.s \o "\""

\* _canonical_leaf(field, value): json.dumps({field: value}, sort_keys=True,
\* separators=(',', ':'))
_canonical_leaf(field, value) ==
    "{" \o "\"" \o field \o "\"" \o ":" \o JsonValue(value) \o "}"

\* _hash_pair(left, right)
_hash_pair(left, right) == sha256(left \o right)

\* sha256 of _canonical_leaf(field, state[field])
LeafHash(state, field) == sha256(_canonical_leaf(field, Get(state, field)))

\* the last node of an odd layer moved up as it is
NextLayer_OddPromoted(layer) ==
    [k \in 1..((Len(layer) + 1) \div 2) |->
        IF 2 * k <= Len(layer) THEN _hash_pair(layer[2 * k - 1], layer[2 * k])
        ELSE layer[2 * k - 1]]

\* one turn of the while loop of merkleize: the next layer, the last node
\* paired with itself when the layer is odd
NextLayer(layer) ==
    [k \in 1..((Len(layer) + 1) \div 2) |->
        _hash_pair(layer[2 * k - 1],
                   IF 2 * k <= Len(layer) THEN layer[2 * k] ELSE layer[2 * k - 1])]

RECURSIVE Layers(_)
\* the layers from current_layer up to the root
Layers(current_layer) ==
    IF Len(current_layer) > 1
    THEN <<current_layer>> \o Layers(NextLayer(current_layer))
    ELSE <<current_layer>>

\* merkleize(state)
merkleize(state) ==
    IF ~Truthy(state) \/ ~IsDict(state)
    THEN [root |-> sha256(""), leaves |-> EmptyDict, tree |-> << <<sha256("")>> >>]
    ELSE LET sorted_fields == sorted(Keys(state))
             leaf_hashes == [i \in 1..Len(sorted_fields) |->
                                LeafHash(state, sorted_fields[i])]
             tree == Layers(leaf_hashes)
         IN  [root |-> tree[Len(tree)][1],
              leaves |-> PyDict([i \in 1..Len(sorted_fields) |->
                                    <<sorted_fields[i], PyStr(leaf_hashes[i])>>]),
              tree |-> tree]

RECURSIVE Ascending(_)
\* sorted(current_indices)
Ascending(indices) ==
    IF indices = {} THEN <<>>
    ELSE LET least == CHOOSE i \in indices : \A j \in indices : i <= j
         IN  <<least>> \o Ascending(indices \ {least})

\* the sibling hashes one layer adds to the proof, for the indices in order
\* (indices count from 0)
SiblingsOf(layer, current_indices) ==
    LET order == Ascending(current_indices)
        SiblingOf(idx) ==
            LET sibling_idx == IF idx % 2 = 0 THEN idx + 1 ELSE idx - 1
            IN  IF sibling_idx < Len(layer) /\ sibling_idx \notin current_indices
                THEN <<layer[sibling_idx + 1]>>
                ELSE IF sibling_idx >= Len(layer) THEN <<layer[idx + 1]>>
                ELSE <<>>
    IN  Flatten([i \in 1..Len(order) |-> SiblingOf(order[i])])

RECURSIVE WalkUp(_, _, _)
\* for layer_idx in range(len(tree) - 1): the proof collected from layer_idx on
WalkUp(tree, layer_idx, current_indices) ==
    IF layer_idx > Len(tree) - 1 THEN <<>>
    ELSE SiblingsOf(tree[layer_idx], current_indices)
           \o WalkUp(tree, layer_idx + 1, {idx \div 2 : idx \in current_indices})

\* selective_disclose(state, field_names)
selective_disclose(state, field_names) ==
    LET tree_data == merkleize(state)
        named == SelectSeq(field_names, LAMBDA f : HasKey(state, f))
        disclosed == PyDict([i \in 1..Len(named) |-> <<named[i], Get(state, named[i])>>])
        sorted_fields == sorted(Keys(state))
        target_indices == {i - 1 : i \in {k \in 1..Len(sorted_fields) :
                              \E n \in 1..Len(field_names) :
                                  field_names[n] = sorted_fields[k]}}
    IN  [disclosed |-> disclosed,
         proof |-> WalkUp(tree_data.tree, 1, target_indices),
         root |-> tree_data.root]

\* one turn of the outer while loop of verify_proof: the next level and the
\* proof hashes used so far
NextLevel(current, proof, proof_idx) ==
    LET n == Len(current)
        paired == [k \in 1..(n \div 2) |-> _hash_pair(current[2 * k - 1], current[2 * k])]
    IN  IF n % 2 = 0 THEN [current |-> paired, proof_idx |-> proof_idx]
        ELSE IF proof_idx < Len(proof)
        THEN [current |-> Append(paired, _hash_pair(current[n], proof[proof_idx + 1])),
              proof_idx |-> proof_idx + 1]
        ELSE [current |-> Append(paired, _hash_pair(current[n], current[n])),
              proof_idx |-> proof_idx]

RECURSIVE Reconstruct(_, _, _)
\* the while loop of verify_proof: the level it ends with
Reconstruct(current, proof, proof_idx) ==
    IF ~(Len(current) > 1 \/ proof_idx < Len(proof)) THEN current
    ELSE LET next == NextLevel(current, proof, proof_idx)
         IN  IF Len(next.current) = 1 /\ next.proof_idx >= Len(proof)
             THEN next.current
             ELSE Reconstruct(next.current, proof, next.proof_idx)

\* a verify_proof that only rebuilds a single hash, without comparing it
\* with the root
verify_proof_RootUnchecked(disclosed, proof, root) ==
    IF ~Truthy(disclosed) THEN FALSE
    ELSE LET fields == sorted(Keys(disclosed))
             disclosed_hashes == [i \in 1..Len(fields) |-> LeafHash(disclosed, fields[i])]
             current == Reconstruct(disclosed_hashes, proof, 0)
         IN  Len(current) = 1

\* verify_proof(disclosed, proof, root)
verify_proof(disclosed, proof, root) ==
    IF ~Truthy(disclosed) THEN FALSE
    ELSE LET fields == sorted(Keys(disclosed))
             disclosed_hashes == [i \in 1..Len(fields) |-> LeafHash(disclosed, fields[i])]
             current == Reconstruct(disclosed_hashes, proof, 0)
         IN  Len(current) = 1 /\ current[1] = root

FieldValues == {PyInt(1), PyStr("x")}

\* the states: the first one to MaxFields field names, in either insertion
\* order, each with one of the values
MerkleStates ==
    UNION {UNION {{PyDict([i \in 1..n |-> <<FieldNames[i], v[i]>>]),
                   PyDict([i \in 1..n |-> <<FieldNames[n + 1 - i], v[n + 1 - i]>>])} :
                     v \in [1..n -> FieldValues]} :
             n \in 1..MaxFields}

\* the lists of field names a caller may disclose: the non-empty sublists of
\* the sorted field names of the state
Disclosable(state) ==
    LET names == sorted(Keys(state))
    IN  {SelectSeq(names, LAMBDA f : f \in chosen) :
            chosen \in (SUBSET Range(names)) \ {{}}}

IdleMerkle ==
    /\ mk_pc = "idle"
    /\ mk_state = None
    /\ mk_field_names = <<>>
    /\ mk_tree = None
    /\ mk_disclosure = None
    /\ mk_tampered = None
    /\ mk_verified = FALSE

CallerOfMerkle ==
    /\ mk_pc = "start"
    /\ mk_state \in MerkleStates
    /\ mk_field_names \in Disclosable(mk_state)
    /\ mk_tree = None
    /\ mk_disclosure = None
    /\ mk_tampered = None
    /\ mk_verified = FALSE

\* tree = merkleize(state)
Merkleize ==
    /\ mk_pc = "start"
    /\ mk_tree' = merkleize(mk_state)
    /\ mk_pc' = "merkleized"
    /\ UNCHANGED <<mk_state, mk_field_names, mk_disclosure, mk_tampered, mk_verified>>
    /\ UNCHANGED exceptMerkle

\* proof = selective_disclose(state, field_names)
SelectiveDisclose ==
    /\ mk_pc = "merkleized"
    /\ mk_disclosure' = selective_disclose(mk_state, mk_field_names)
    /\ mk_pc' = "disclosed"
    /\ UNCHANGED <<mk_state, mk_field_names, mk_tree, mk_tampered, mk_verified>>
    /\ UNCHANGED exceptMerkle

\* the values a caller may put in the place of a disclosed one
TamperValues == FieldValues \cup {PyInt(2)}

\* the field names a caller may put in the place of a disclosed one
TamperNames == Range(FieldNames) \cup {"z"}

\* the disclosed mapping with the value of its i-th field replaced
WithValue(disclosed, i, value) ==
    PyDict([disclosed.pairs EXCEPT ![i] = <<disclosed.pairs[i][1], value>>])

\* the disclosed mapping with the name of its i-th field replaced
WithName(disclosed, i, field) ==
    PyDict([disclosed.pairs EXCEPT ![i] = <<field, disclosed.pairs[i][2]>>])

\* tampered = {...}: the caller alters one disclosed field, or hands in an
\* empty mapping, and keeps proof and root
Tamper ==
    /\ mk_pc = "disclosed"
    /\ LET disclosed == mk_disclosure.disclosed
       IN  \E tampered \in
                {EmptyDict}
                \cup {WithValue(disclosed, i, value) :
                        i \in 1..Len(disclosed.pairs),
                        value \in TamperValues}
                \cup {WithName(disclosed, i, field) :
                        i \in 1..Len(disclosed.pairs),
                        field \in TamperNames \ KeySet(disclosed)} :
              /\ tampered # disclosed
              /\ mk_tampered' = tampered
    /\ mk_pc' = "tampered"
    /\ UNCHANGED <<mk_state, mk_field_names, mk_tree, mk_disclosure, mk_verified>>
    /\ UNCHANGED exceptMerkle

\* verify_proof(proof['disclosed'], proof['proof'], proof['root'])
VerifyProof ==
    /\ mk_pc \in {"disclosed", "tampered"}
    /\ mk_verified' = verify_proof(IF mk_pc = "tampered" THEN mk_tampered
                                   ELSE mk_disclosure.disclosed,
                                   mk_disclosure.proof, mk_disclosure.root)
    /\ mk_pc' = "done"
    /\ UNCHANGED <<mk_state, mk_field_names, mk_tree, mk_disclosure, mk_tampered>>
    /\ UNCHANGED exceptMerkle

----------------------------------------------------------------------------
(***************************************************************************)
(* trust.py: compute_trust over a corpus of blocks.  A caller scores an    *)
(* actor, a certification of the actor is added to the corpus, and the     *)
(* caller scores the actor again.  The floats of the code are exact        *)
(* fractions here.                                                         *)
(***************************************************************************)
RECURSIVE GCD(_, _)
GCD(a, b) == IF b = 0 THEN a ELSE GCD(b, a % b)

\* the fraction n/d, d > 0, in lowest terms
Rat(n, d) ==
    LET g == GCD(IF n < 0 THEN -n ELSE n, d)
    IN  [n |-> n \div g, d |-> d \div g]
RatInt(n) == Rat(n, 1)
RatAdd(a, b) == Rat(a.n * b.d + b.n * a.d, a.d * b.d)
RatSub(a, b) == Rat(a.n * b.d - b.n * a.d, a.d * b.d)
RatMul(a, b) == Rat(a.n * b.n, a.d * b.d)
\* a / b for b > 0
RatDiv(a, b) == Rat(a.n * b.d, a.d * b.n)
RatLess(a, b) == a.n * b.d < b.n * a.d

RECURSIVE RatSum(_)
RatSum(rats) == IF rats = <<>> THEN RatInt(0) ELSE RatAdd(Head(rats), RatSum(Tail(rats)))

\* DEFAULT_WEIGHTS
DEFAULT_WEIGHTS ==
    [authority_certs |-> RatInt(3), peer_reviews |-> RatInt(1),
     chain_depth |-> RatInt(2), verified_orders |-> Rat(3, 2),
     account_age |-> Rat(1, 2)]

\* a block of the corpus: b.get(field) is None for a field it lacks
TrustBlock(type_, refs, state, author_hash, hash_, created_at) ==
    [type |-> type_, refs |-> refs, state |-> state, author_hash |-> author_hash,
     hash |-> hash_, created_at |-> created_at]

\* datetime.now(timezone.utc), in days since 2020-01-01
Now == 2497

\* datetime.fromisoformat(s.replace('Z', '+00:00')), in days since
\* 2020-01-01; a ValueError for a string that is no ISO date
fromisoformat(s) ==
    CASE s = "2020-01-01T00:00:00Z" -> [day |-> 0]
      [] s = "2999-01-01T00:00:00Z" -> [day |-> 357565]
      [] OTHER -> Raise("ValueError")

\* the certification is skipped: valid_until parses and lies before now
Expired(valid_until) ==
    /\ Truthy(valid_until)
    /\ LET parsed == fromisoformat(valid_until.s)
       IN  ~Raised(parsed) /\ parsed.day < Now

\* _count_authority_certs(actor_hash, blocks)
_count_authority_certs(actor_hash, blocks) ==
    Cardinality({i \in 1..Len(blocks) :
        /\ blocks[i].type = PyStr("observe.certification")
        /\ Get(OrEmptyDict(blocks[i].refs), "subject") = actor_hash
        /\ ~Expired(Get(OrEmptyDict(blocks[i].state), "valid_until"))})

\* vals: the values of refs, lists spread out
RefVals(refs) ==
    Range(Flatten([i \in 1..Len(refs.pairs) |-> HashesOfRef(refs.pairs[i][2])]))

\* refs_a of connection_density: what the blocks that mention actor mention
\* besides it
RefsBeside(actor, blocks) ==
    UNION {RefVals(blocks[i].refs) \ {actor} :
             i \in {k \in 1..Len(blocks) :
                      Truthy(blocks[k].refs) /\ actor \in RefVals(blocks[k].refs)}}

\* connection_density(actor_a, actor_b, blocks)
connection_density(actor_a, actor_b, blocks) ==
    IF ~Truthy(actor_a) \/ ~Truthy(actor_b) THEN RatInt(0)
    ELSE LET refs_a == RefsBeside(actor_a, blocks)
             refs_b == RefsBeside(actor_b, blocks)
         IN  IF refs_a = {} \/ refs_b = {} THEN RatInt(0)
             ELSE Rat(Cardinality(refs_a \cap refs_b), Cardinality(refs_a \cup refs_b))

\* a review of the actor with a numeric rating
IsReviewOf(actor_hash, b) ==
    /\ b.type = PyStr("observe.review")
    /\ Get(OrEmptyDict(b.refs), "subject") = actor_hash
    /\ Get(OrEmptyDict(b.state), "rating").t = "int"

\* weight = 1 - density, for the reviewer of one review
ReviewWeight(actor_hash, review, blocks) ==
    LET author == Get(OrEmptyDict(review.refs), "author")
        reviewer_hash == IF Truthy(author) THEN author ELSE review.author_hash
    IN  RatSub(RatInt(1), connection_density(reviewer_hash, actor_hash, blocks))

\* _compute_peer_reviews(actor_hash, blocks)
_compute_peer_reviews(actor_hash, blocks) ==
    LET reviews == SelectSeq(blocks, LAMBDA b : IsReviewOf(actor_hash, b))
        rating(i) == Get(reviews[i].state, "rating").n
        weight == [i \in 1..Len(reviews) |-> ReviewWeight(actor_hash, reviews[i], blocks)]
        total_weighted == RatSum([i \in 1..Len(reviews) |->
                                     RatMul(Rat(rating(i), 5), weight[i])])
        total_weight == RatSum(weight)
    IN  IF reviews = <<>>
        THEN [count |-> 0, avg_score |-> RatInt(0), weighted_score |-> RatInt(0)]
        ELSE [count |-> Len(reviews),
              avg_score |-> RatDiv(RatSum([i \in 1..Len(reviews) |-> RatInt(rating(i))]),
                                   RatInt(Len(reviews))),
              weighted_score |->
                  IF RatLess(RatInt(0), total_weight)
                  THEN RatMul(RatDiv(total_weighted, total_weight), RatInt(Len(reviews)))
                  ELSE RatInt(0)]

\* _compute_chain_depth(actor_hash, blocks)
_compute_chain_depth(actor_hash, blocks) ==
    Cardinality({blocks[i].author_hash :
        i \in {k \in 1..Len(blocks) :
                 /\ Truthy(blocks[k].refs)
                 /\ actor_hash \in RefVals(blocks[k].refs)
                 /\ Truthy(blocks[k].author_hash)}})

\* _count_verified_orders(actor_hash, blocks)
_count_verified_orders(actor_hash, blocks) ==
    Cardinality({i \in 1..Len(blocks) :
        /\ startswith(blocks[i].type.s, "transfer.order")
        /\ \/ Get(OrEmptyDict(blocks[i].refs), "buyer") = actor_hash
           \/ Get(OrEmptyDict(blocks[i].refs), "seller") = actor_hash
        /\ \/ Truthy(Get(OrEmptyDict(blocks[i].state), "adapter_ref"))
           \/ Truthy(Get(OrEmptyDict(blocks[i].state), "payment_ref"))})

RECURSIVE _compute_account_age(_, _, _)
\* _compute_account_age(actor_hash, blocks, now), in days
_compute_account_age(actor_hash, blocks, now) ==
    IF blocks = <<>> THEN 0
    ELSE LET b == Head(blocks)
             created == IF b.hash = actor_hash /\ Truthy(b.created_at)
                        THEN fromisoformat(b.created_at.s)
                        ELSE Raise("skipped")
         IN  IF Raised(created)
             THEN _compute_account_age(actor_hash, Tail(blocks), now)
             ELSE IF now - created.day < 365 THEN now - created.day ELSE 365

\* weights = {**DEFAULT_WEIGHTS, **(policy.get('weights') or {})}
WeightsOf(policy) ==
    [k \in DOMAIN DEFAULT_WEIGHTS |->
        IF k \in DOMAIN policy.weights THEN policy.weights[k] ELSE DEFAULT_WEIGHTS[k]]

\* compute_trust(actor_hash, blocks, policy)
compute_trust(actor_hash, blocks, policy) ==
    IF ~Truthy(actor_hash) \/ ~IsStr(actor_hash)
    THEN Raise("FoodBlock: actor_hash is required")
    ELSE LET weights == WeightsOf(policy)
             peer == _compute_peer_reviews(actor_hash, blocks)
             inputs == [authority_certs |-> _count_authority_certs(actor_hash, blocks),
                        peer_reviews |-> peer,
                        chain_depth |-> _compute_chain_depth(actor_hash, blocks),
                        verified_orders |-> _count_verified_orders(actor_hash, blocks),
                        account_age |-> _compute_account_age(actor_hash, blocks, Now)]
             score == RatSum(<<
                 RatMul(RatInt(inputs.authority_certs), weights.authority_certs),
                 RatMul(peer.weighted_score, weights.peer_reviews),
                 RatMul(RatInt(inputs.chain_depth), weights.chain_depth),
                 RatMul(RatInt(inputs.verified_orders), weights.verified_orders),
                 RatMul(RatInt(inputs.account_age), weights.account_age)>>)
         IN  [score |-> score, inputs |-> inputs,
              meets_minimum |-> ~RatLess(score, policy.min_score)]

\* the actor that is scored
Actor == PyStr("actor")

\* a policy: the weights it overrides and its min_score (0 when it has none)
TrustPolicy(weights, min_score) == [weights |-> weights, min_score |-> min_score]

\* no policy, and a policy that weighs peer reviews higher
TrustPolicies ==
    {TrustPolicy(<<>>, RatInt(0)),
     TrustPolicy([k \in {"peer_reviews"} |-> RatInt(4)], RatInt(5))}

Refs1(role, hash_) == PyDict(<< <<role, PyStr(hash_)>> >>)
Refs2(role1, hash1, role2, hash2) ==
    PyDict(<< <<role1, PyStr(hash1)>>, <<role2, PyStr(hash2)>> >>)

\* the blocks a corpus is made of: two reviews of the actor, a block that
\* links the first reviewer with an authority, a paid order, an expired
\* certification and the block of the actor
TrustBlocks ==
    {TrustBlock(PyStr("observe.review"), Refs1("subject", "actor"),
                PyDict(<< <<"rating", PyInt(5)>> >>), PyStr("reviewer1"), None, None),
     TrustBlock(PyStr("observe.review"), Refs2("subject", "actor", "author", "reviewer2"),
                PyDict(<< <<"rating", PyInt(1)>> >>), None, None, None),
     TrustBlock(PyStr("observe.audit"), Refs2("auditor", "reviewer1", "authority", "authority"),
                None, None, None, None),
     TrustBlock(PyStr("transfer.order"), Refs2("buyer", "actor", "seller", "seller"),
                PyDict(<< <<"payment_ref", PyStr("p1")>> >>), PyStr("seller"), None, None),
     TrustBlock(PyStr("observe.certification"), Refs2("subject", "actor", "authority", "authority"),
                PyDict(<< <<"valid_until", PyStr("2020-01-01T00:00:00Z")>> >>),
                None, None, None),
     TrustBlock(PyStr("actor.producer"), None,
                PyDict(<< <<"name", PyStr("Farm")>> >>), None, Actor,
                PyStr("2020-01-01T00:00:00Z"))}

\* the corpora: up to MaxCorpus blocks, repetitions included
Corpora == UNION {[1..n -> TrustBlocks] : n \in 0..MaxCorpus}

\* the certifications that may be added: observe.certification blocks with
\* refs.subject the actor that are not expired
ValidCertifications ==
    {TrustBlock(PyStr("observe.certification"), Refs1("subject", "actor"),
                None, None, None, None),
     TrustBlock(PyStr("observe.certification"),
                Refs2("subject", "actor", "authority", "authority"),
                PyDict(<< <<"valid_until", PyStr("2999-01-01T00:00:00Z")>> >>),
                None, None, None),
     TrustBlock(PyStr("observe.certification"),
                Refs2("subject", "actor", "authority", "authority"),
                PyDict(<< <<"valid_until", PyStr("never")>> >>),
                PyStr("authority"), None, None)}

IdleTrust ==
    /\ tr_pc = "idle"
    /\ tr_blocks = <<>>
    /\ tr_policy = TrustPolicy(<<>>, RatInt(0))
    /\ tr_results = <<>>

CallerOfTrust ==
    /\ tr_pc = "start"
    /\ tr_blocks \in Corpora
    /\ tr_policy \in TrustPolicies
    /\ tr_results = <<>>

\* compute_trust(actor_hash, blocks, policy), before and after the addition
ComputeTrust ==
    /\ tr_pc \in {"start", "added"}
    /\ tr_results' = Append(tr_results, compute_trust(Actor, tr_blocks, tr_policy))
    /\ tr_pc' = IF tr_pc = "start" THEN "scored" ELSE "done"
    /\ UNCHANGED <<tr_blocks, tr_policy>>
    /\ UNCHANGED exceptTrust

\* one more valid certification of the actor joins the corpus
AddCertification ==
    /\ tr_pc = "scored"
    /\ \E certification \in ValidCertifications :
          tr_blocks' = Append(tr_blocks, certification)
    /\ tr_pc' = "added"
    /\ UNCHANGED <<tr_policy, tr_results>>
    /\ UNCHANGED exceptTrust

----------------------------------------------------------------------------
(***************************************************************************)
(* chain.py: tree(start_hash, resolve, max_depth).  The calls of build     *)
(* that have not returned are the frames of a stack, the innermost last.   *)
(* The resolver is a lookup in a store that maps a hash to its block.      *)
(***************************************************************************)
\* {"block": block, "ancestors": ancestors}
TreeNode(block, ancestors) == [t |-> "tree", block |-> block, ancestors |-> ancestors]

\* a call of build(hash_, depth) that has not run yet
Frame(hash_, depth) ==
    [hash_ |-> hash_, depth |-> depth, phase |-> "call", block |-> None,
     ancestors |-> EmptyDict, role |-> 1, h |-> 1, subtrees |-> <<>>]

\* the stores: a block or None for each of the hashes h0..h3, the blocks
\* with at most MaxMentions references in all
TreeStores ==
    {[h \in RecallHashes |-> IF f[h] = None THEN None
                             ELSE Block(h, "substance.product", f[h])] :
       f \in {g \in [h0 : RecallRefs("h0"), h1 : {None} \cup RecallRefs("h1"),
                     h2 : {None} \cup RecallRefs("h2"), h3 : {None} \cup RecallRefs("h3")] :
                NumMentions(g.h0)
                  + (IF g.h1 = None THEN 0 ELSE NumMentions(g.h1))
                  + (IF g.h2 = None THEN 0 ELSE NumMentions(g.h2))
                  + (IF g.h3 = None THEN 0 ELSE NumMentions(g.h3)) <= MaxMentions}}

IdleTree ==
    /\ tt_pc = "idle"
    /\ tt_store = [h \in RecallHashes |-> None]
    /\ tt_max_depth = 0
    /\ tt_visited = {}
    /\ tt_stack = <<>>
    /\ tt_result = None

\* tree(start_hash, resolve, max_depth) was called: visited = set() and
\* build(start_hash, 0) is about to run
EnterTree ==
    /\ tt_pc = "running"
    /\ tt_store \in TreeStores
    /\ tt_max_depth \in 0..MaxDepth
    /\ tt_visited = {}
    /\ tt_stack = <<Frame(PyStr(SourceHash), 0)>>
    /\ tt_result = None

\* the first line of build without the visited set
TreeStops_DepthOnly(hash_, depth, max_depth, visited) ==
    ~Truthy(hash_) \/ depth >= max_depth

\* not hash_ or depth >= max_depth or hash_ in visited
TreeStops(hash_, depth, max_depth, visited) ==
    ~Truthy(hash_) \/ depth >= max_depth \/ hash_ \in visited

\* a call of build returns subtree: to the call that awaits it, which
\* appends it when it is not None and goes on with its next hash, or to the
\* caller of tree
TreeReturnTo(callers, subtree) ==
    IF callers = <<>>
    THEN /\ tt_stack' = <<>>
         /\ tt_result' = subtree
         /\ tt_pc' = "done"
    ELSE LET caller == callers[Len(callers)]
         IN  /\ tt_stack' = [callers EXCEPT ![Len(callers)] =
                   [caller EXCEPT !.h = caller.h + 1,
                                  !.subtrees = IF subtree # None
                                               THEN Append(caller.subtrees, subtree)
                                               ELSE caller.subtrees]]
             /\ UNCHANGED <<tt_result, tt_pc>>

\* the innermost call and the calls that await it
TreeTop == tt_stack[Len(tt_stack)]
TreeCallers == SubSeq(tt_stack, 1, Len(tt_stack) - 1)

\* hashes = ref if isinstance(ref, list) else [ref], for the role the
\* innermost call is at
TreeHashesOfRole(frame) == HashesOfRef(BlockRefs(frame.block).pairs[frame.role][2])

\* build(hash_, depth) up to the answer of the resolver
TreeBuild ==
    /\ tt_pc = "running"
    /\ TreeTop.phase = "call"
    /\ IF TreeStops(TreeTop.hash_, TreeTop.depth, tt_max_depth, tt_visited)
       THEN /\ TreeReturnTo(TreeCallers, None)
            /\ UNCHANGED tt_visited
       ELSE /\ tt_visited' = tt_visited \cup {TreeTop.hash_}
            /\ LET block == tt_store[TreeTop.hash_.s]
               IN  IF ~Truthy(block)
                   THEN TreeReturnTo(TreeCallers, None)
                   ELSE /\ tt_stack' = [tt_stack EXCEPT ![Len(tt_stack)] =
                               [TreeTop EXCEPT !.phase = "loop", !.block = block]]
                        /\ UNCHANGED <<tt_result, tt_pc>>
    /\ UNCHANGED <<tt_store, tt_max_depth>>
    /\ UNCHANGED exceptTree

\* subtree = await build(h, depth + 1), for the next hash of the role
TreeDescend ==
    /\ tt_pc = "running"
    /\ TreeTop.phase = "loop"
    /\ TreeTop.role <= Len(BlockRefs(TreeTop.block).pairs)
    /\ TreeTop.h <= Len(TreeHashesOfRole(TreeTop))
    /\ tt_stack' = Append(tt_stack,
                          Frame(TreeHashesOfRole(TreeTop)[TreeTop.h], TreeTop.depth + 1))
    /\ UNCHANGED <<tt_store, tt_max_depth, tt_visited, tt_result, tt_pc>>
    /\ UNCHANGED exceptTree

\* the hashes of a role are done: ancestors[role] is the subtree when there
\* is one, the list of subtrees when there are more
TreeEndRole ==
    /\ tt_pc = "running"
    /\ TreeTop.phase = "loop"
    /\ TreeTop.role <= Len(BlockRefs(TreeTop.block).pairs)
    /\ TreeTop.h > Len(TreeHashesOfRole(TreeTop))
    /\ LET role == BlockRefs(TreeTop.block).pairs[TreeTop.role][1]
           subtrees == TreeTop.subtrees
           ancestors == IF Len(subtrees) = 1
                        THEN DictSet(TreeTop.ancestors, role, subtrees[1])
                        ELSE IF Len(subtrees) > 1
                        THEN DictSet(TreeTop.ancestors, role, PyList(subtrees))
                        ELSE TreeTop.ancestors
       IN  tt_stack' = [tt_stack EXCEPT ![Len(tt_stack)] =
               [TreeTop EXCEPT !.ancestors = ancestors, !.role = TreeTop.role + 1,
                               !.h = 1, !.subtrees = <<>>]]
    /\ UNCHANGED <<tt_store, tt_max_depth, tt_visited, tt_result, tt_pc>>
    /\ UNCHANGED exceptTree

\* return {"block": block, "ancestors": ancestors}
TreeReturn ==
    /\ tt_pc = "running"
    /\ TreeTop.phase = "loop"
    /\ TreeTop.role > Len(BlockRefs(TreeTop.block).pairs)
    /\ TreeReturnTo(TreeCallers, TreeNode(TreeTop.block, TreeTop.ancestors))
    /\ UNCHANGED <<tt_store, tt_max_depth, tt_visited>>
    /\ UNCHANGED exceptTree

----------------------------------------------------------------------------
(***************************************************************************)
(* Calls of canonical and compute_hash on two inputs that differ in the    *)
(* Unicode normalization form of one key or of one string of a refs array. *)
(***************************************************************************)
\* the keys and the strings of the inputs, in normalization form C
CanonStrings == {"d", EAcute, "f"}

\* the state arguments: some of the keys, each with the value 1
CanonStates ==
    {PyDict(SelectSeq(<< <<"d", PyInt(1)>>, <<EAcute, PyInt(1)>>, <<"f", PyInt(1)>> >>,
                      LAMBDA p : p[1] \in chosen)) :
        chosen \in SUBSET CanonStrings}

\* the refs arguments: no refs, or an array of up to MaxSize - 1 strings
CanonRefs ==
    {EmptyDict}
        \cup {PyDict(<< <<"inputs", PyList([i \in 1..Len(l) |-> PyStr(l[i])])>> >>) :
                l \in SeqsUpTo(CanonStrings, MaxSize - 1)}

\* unicodedata.normalize("NFD", s) of a string of one character
NFD(s) == IF s = EAcute THEN "e" \o CombiningAcute ELSE s

\* the dict with its i-th key decomposed
DecomposeKey(dict, i) ==
    PyDict([dict.pairs EXCEPT ![i] = <<NFD(dict.pairs[i][1]), dict.pairs[i][2]>>])

\* the refs with the i-th string of the inputs array decomposed
DecomposeElement(refs, i) ==
    LET elems == Get(refs, "inputs").elems
    IN  DictSet(refs, "inputs", PyList([elems EXCEPT ![i] = PyStr(NFD(elems[i].s))]))

IdleCanonical ==
    /\ cn_pc = "idle"
    /\ cn_state = None
    /\ cn_refs = None
    /\ cn_results = <<>>

CallerOfCanonical ==
    /\ cn_pc = "start"
    /\ cn_state \in CanonStates
    /\ cn_refs \in CanonRefs
    /\ cn_results = <<>>

\* canonical(type_, state, refs) and compute_hash(type_, state, refs)
Canonical ==
    /\ cn_pc \in {"start", "rewritten"}
    /\ cn_results' = Append(cn_results,
           [canonical |-> canonical(PyStr("substance.product"), cn_state, cn_refs),
            hash |-> compute_hash(PyStr("substance.product"), cn_state, cn_refs)])
    /\ cn_pc' = IF cn_pc = "start" THEN "first" ELSE "done"
    /\ UNCHANGED <<cn_state, cn_refs>>
    /\ UNCHANGED exceptCanonical

\* the caller writes one key of state in normalization form D
RewriteKey ==
    /\ cn_pc = "first"
    /\ \E i \in 1..Len(cn_state.pairs) :
          /\ NFD(cn_state.pairs[i][1]) # cn_state.pairs[i][1]
          /\ cn_state' = DecomposeKey(cn_state, i)
    /\ cn_pc' = "rewritten"
    /\ UNCHANGED <<cn_refs, cn_results>>
    /\ UNCHANGED exceptCanonical

\* the caller writes one string of the refs array in normalization form D
RewriteRefsString ==
    /\ cn_pc = "first"
    /\ HasKey(cn_refs, "inputs")
    /\ \E i \in 1..Len(Get(cn_refs, "inputs").elems) :
          /\ NFD(Get(cn_refs, "inputs").elems[i].s) # Get(cn_refs, "inputs").elems[i].s
          /\ cn_refs' = DecomposeElement(cn_refs, i)
    /\ cn_pc' = "rewritten"
    /\ UNCHANGED <<cn_state, cn_results>>
    /\ UNCHANGED exceptCanonical

----------------------------------------------------------------------------
(***************************************************************************)
(* offline.py: OfflineQueue.  Callers create and update blocks through the *)
(* queue and ask for its dependency order; a sync posts the sorted blocks  *)
(* and clears the queue when the post succeeds.  A sync is two steps, up   *)
(* to the post and from the response on, and other calls may run between   *)
(* them.                                                                   *)
(***************************************************************************)
\* the hashes below h: a block can hold the hash of a block only when that
\* block's content, and so its hash, was fixed before its own
HashesBelow(h) == {PyStr(g) : g \in {x \in Hashes : StrLess(x, h)}}

\* the refs arguments of a create call that returns the hash h: none for
\* the lowest hash, else an inputs array of one or two hashes
QueueRefs(h) ==
    IF HashesBelow(h) = {} THEN {EmptyDict}
    ELSE {PyDict(<< <<"inputs", PyList(<<g>>)>> >>) :
            g \in {x \in HashesBelow(h) :
                     \A y \in HashesBelow(h) : y = x \/ StrLess(y.s, x.s)}}
         \cup {PyDict(<< <<"inputs", PyList(<<p[1], p[2]>>)>> >>) :
                 p \in {q \in HashesBelow(h) \X HashesBelow(h) : q[1] # q[2]}}

\* the block a call returned, its SHA-256 digest written as the name h
Hashed(block, h) == [block EXCEPT !.hash = PyStr(h)]

\* equal content has equal hashes: a block of hash h was not added before
\* with other content
SameContent(block, added) ==
    \A i \in 1..Len(added) : added[i].hash = block.hash => added[i] = block

\* deps without the test h in hashes left out: no hash is kept
DepsOf_None(block, hashes) == <<>>

\* deps: the hashes of the refs of a block that are hashes of queued blocks
DepsOf(block, hashes) == SelectSeq(Mentions(block), LAMBDA h : h \in hashes)

\* graph.get(h, []): the deps of the last queued block of hash h
GraphOf(blocks, h) ==
    LET queued == {blocks[i].hash : i \in 1..Len(blocks)}
        holders == {i \in 1..Len(blocks) : blocks[i].hash = h}
    IN  IF holders = {} THEN <<>>
        ELSE DepsOf(blocks[CHOOSE i \in holders : \A j \in holders : j <= i], queued)

RECURSIVE visit(_, _, _)
\* visit(h) of OfflineQueue.sorted, on the pair of visited and result
visit(blocks, h, st) ==
    IF h \in st.visited THEN st
    ELSE LET deps == GraphOf(blocks, h)
             RECURSIVE VisitDeps(_, _)
             VisitDeps(i, s) ==
                 IF i > Len(deps) THEN s
                 ELSE VisitDeps(i + 1, visit(blocks, deps[i], s))
             after == VisitDeps(1, [st EXCEPT !.visited = @ \cup {h}])
             holders == {i \in 1..Len(blocks) : blocks[i].hash = h}
         IN  IF holders = {} THEN after
             ELSE [after EXCEPT !.result =
                      Append(@, blocks[CHOOSE i \in holders : \A j \in holders : i <= j])]

\* OfflineQueue.sorted()
OfflineQueue_sorted(blocks) ==
    LET RECURSIVE VisitFrom(_, _)
        VisitFrom(i, st) ==
            IF i > Len(blocks) THEN st
            ELSE VisitFrom(i + 1, visit(blocks, blocks[i].hash, st))
    IN  VisitFrom(1, [visited |-> {}, result |-> <<>>]).result

IdleQueue ==
    /\ q_pc = "idle"
    /\ q_blocks = <<>>
    /\ q_added = <<>>
    /\ q_sorted = None
    /\ q_batch = <<>>
    /\ q_posted = {}

\* queue = OfflineQueue()
NewQueue ==
    /\ q_pc = "ready"
    /\ q_blocks = <<>>
    /\ q_added = <<>>
    /\ q_sorted = None
    /\ q_batch = <<>>
    /\ q_posted = {}

\* OfflineQueue.create(type, state, refs)
QueueCreate ==
    /\ q_pc \in {"ready", "posting"}
    /\ Len(q_added) < MaxQueue
    /\ \E h \in Hashes :
          \E refs \in QueueRefs(h) :
             LET state == PyDict(<< <<"name", PyStr(h)>> >>)
                 block == Hashed(create(PyStr("substance.product"), OrEmptyDict(state),
                                        OrEmptyDict(refs), "u1"), h)
             IN  /\ SameContent(block, q_added)
                 /\ q_blocks' = Append(q_blocks, block)
                 /\ q_added' = Append(q_added, block)
    /\ UNCHANGED <<q_pc, q_sorted, q_batch, q_posted>>
    /\ UNCHANGED exceptQueue

\* OfflineQueue.update(previous_hash, type, state, refs)
QueueUpdate ==
    /\ q_pc \in {"ready", "posting"}
    /\ Len(q_added) < MaxQueue
    /\ \E h \in Hashes :
          \E previous_hash \in HashesBelow(h) :
             LET state == PyDict(<< <<"name", PyStr(h)>> >>)
                 block == Hashed(update(previous_hash, PyStr("substance.product"),
                                        OrEmptyDict(state), OrEmptyDict(None), "u1"), h)
             IN  /\ SameContent(block, q_added)
                 /\ q_blocks' = Append(q_blocks, block)
                 /\ q_added' = Append(q_added, block)
    /\ UNCHANGED <<q_pc, q_sorted, q_batch, q_posted>>
    /\ UNCHANGED exceptQueue

\* OfflineQueue.sorted(), called on its own at some point: the queue before
\* the call, the list returned and the queue after the call
QueueSorted ==
    /\ q_pc \in {"ready", "posting"}
    /\ q_sorted = None
    /\ q_blocks' = q_blocks
    /\ q_sorted' = [before |-> q_blocks, result |-> OfflineQueue_sorted(q_blocks),
                    after |-> q_blocks']
    /\ UNCHANGED <<q_pc, q_added, q_batch, q_posted>>
    /\ UNCHANGED exceptQueue

\* OfflineQueue.sync(url, session) up to session.post(): the batch is the
\* sorted queue
SyncPost ==
    /\ q_pc = "ready"
    /\ q_batch' = OfflineQueue_sorted(q_blocks)
    /\ q_pc' = "posting"
    /\ UNCHANGED <<q_blocks, q_added, q_sorted, q_posted>>
    /\ UNCHANGED exceptQueue

\* the post fails: session.post() or response.raise_for_status() raises
SyncFails ==
    /\ q_pc = "posting"
    /\ q_batch' = <<>>
    /\ q_pc' = "ready"
    /\ UNCHANGED <<q_blocks, q_added, q_sorted, q_posted>>
    /\ UNCHANGED exceptQueue

\* the post succeeds: result = response.json(); self.clear()
SyncSucceeds ==
    /\ q_pc = "posting"
    /\ q_posted' = q_posted \cup Range(q_batch)
    /\ q_blocks' = <<>>
    /\ q_batch' = <<>>
    /\ q_pc' = "ready"
    /\ UNCHANGED <<q_added, q_sorted>>
    /\ UNCHANGED exceptQueue

----------------------------------------------------------------------------
(***************************************************************************)
(* verify.py: Ed25519 signing and verification.  A private key is named    *)
(* by its hex string; the bytes of a signature are written as the pair of  *)
(* the key that made them and the message they were made for, so that a    *)
(* signature verifies under the public key of that key for that message    *)
(* and for nothing else.                                                   *)
(***************************************************************************)
PrivateKeys == {"k1", "k2"}

\* private_key.public_key(), as hex
PublicOf(private_key_hex) == IF private_key_hex = "k1" THEN "p1" ELSE "p2"

PublicKeys == {PublicOf(k) : k \in PrivateKeys}

\* content.encode("utf-8")
encode(content) == <<"utf-8", content>>

\* private_key.sign(data)
Ed25519Sign(private_key_hex, data) == [signer |-> private_key_hex, message |-> data]

\* bytes that no key made as a signature
NoSignature == [signer |-> "", message |-> <<>>]

\* public_key.verify(signature, data) does not raise InvalidSignature
Ed25519Verifies(public_key_hex, signature, data) ==
    /\ signature.signer \in PrivateKeys
    /\ PublicOf(signature.signer) = public_key_hex
    /\ signature.message = data

\* bytes_.hex(): the str that spells the bytes
hex(bytes_) == [t |-> "str", hex |-> bytes_]

\* bytes.fromhex(value)
fromhex(value) ==
    IF value.t # "str" THEN Raise("TypeError")
    ELSE IF "hex" \in DOMAIN value THEN value.hex
    ELSE Raise("ValueError")

\* sign(block, author_hash, private_key_hex)
sign(block, author_hash, private_key_hex) ==
    LET content == canonical(block.type, block.state, block.refs)
        signature == Ed25519Sign(private_key_hex, encode(content))
    IN  [foodblock |-> block, author_hash |-> author_hash,
         signature |-> hex(signature), protocol_version |-> PyStr("0.4.0")]

\* verify that checks who signed and not what was signed
verify_ContentUnchecked(wrapper, public_key_hex) ==
    IF public_key_hex \notin PublicKeys THEN Raise("ValueError")
    ELSE LET signature == fromhex(wrapper.signature)
         IN  IF Raised(signature) THEN PyBool(FALSE)
             ELSE PyBool(/\ signature.signer \in PrivateKeys
                         /\ PublicOf(signature.signer) = public_key_hex)

\* verify(wrapper, public_key_hex): the key is parsed outside the try, the
\* signature inside it
verify(wrapper, public_key_hex) ==
    IF public_key_hex \notin PublicKeys THEN Raise("ValueError")
    ELSE LET block == wrapper.foodblock
             content == canonical(block.type, block.state, block.refs)
             signature == fromhex(wrapper.signature)
         IN  IF Raised(signature) THEN PyBool(FALSE)
             ELSE PyBool(Ed25519Verifies(public_key_hex, signature, encode(content)))

----------------------------------------------------------------------------
(***************************************************************************)
(* Calls of sign and verify.  A block is created and signed; the wrapper   *)
(* may then be rewritten in one place and is verified, and may be          *)
(* rewritten in one more place and is verified again.                      *)
(***************************************************************************)
SignedTypes == {PyStr("substance.product"), PyStr("substance.item")}
SignedStates ==
    {PyDict(<< <<"name", PyStr("a")>> >>), PyDict(<< <<"name", PyStr("b")>> >>),
     PyDict(<< <<"name", PyStr("a")>>, <<"note", None>> >>)}
SignedRefs ==
    {PyDict(<< <<"inputs", PyList(<<PyStr("h1"), PyStr("h2")>>)>> >>),
     PyDict(<< <<"inputs", PyList(<<PyStr("h2"), PyStr("h1")>>)>> >>),
     EmptyDict}
AuthorHashes == {PyStr("h1"), PyStr("h2")}

\* what a caller may put in place of the signature: nothing, a str that is
\* not hex, the hex of bytes that are no signature, a signature of the same
\* content by either key
SignaturesFor(wrapper) ==
    {None, PyStr("zz"), hex(NoSignature)}
        \cup {hex(Ed25519Sign(k, fromhex(wrapper.signature).message)) :
                k \in PrivateKeys}

\* the public_key_hex passed to verify: the key of a keypair, or not a key
KeysPassed == PublicKeys \cup {"zz"}

IdleVerify ==
    /\ vf_pc = "idle"
    /\ vf_signed = None
    /\ vf_wrapper = None
    /\ vf_first = None
    /\ vf_second = None

CallerOfVerify ==
    /\ vf_pc = "called"
    /\ vf_signed = None
    /\ vf_wrapper = None
    /\ vf_first = None
    /\ vf_second = None

\* block = create(type_, state, refs); wrapper = sign(block, author, key)
Sign ==
    /\ vf_pc = "called"
    /\ \E type_ \in {PyStr("substance.product")}, state \in SignedStates,
          refs \in SignedRefs \ {EmptyDict}, private_key_hex \in PrivateKeys :
         LET wrapper == sign(create(type_, state, refs, "u1"), PyStr("h1"),
                             private_key_hex)
         IN  /\ vf_signed' = wrapper
             /\ vf_wrapper' = wrapper
    /\ vf_pc' = "signed"
    /\ UNCHANGED <<vf_first, vf_second>>
    /\ UNCHANGED exceptVerify

Rewritten == IF vf_pc = "signed" THEN "rewritten" ELSE "rewritten again"

\* wrapper["author_hash"] = ..., wrapper["protocol_version"] = ... or
\* wrapper["foodblock"]["hash"] = ...
RewriteEnvelope ==
    /\ vf_pc \in {"signed", "verified"}
    /\ \/ \E author \in AuthorHashes \ {vf_wrapper.author_hash} :
            vf_wrapper' = [vf_wrapper EXCEPT !.author_hash = author]
       \/ \E version \in {PyStr("0.4.0"), PyStr("0.3.0")} \ {vf_wrapper.protocol_version} :
            vf_wrapper' = [vf_wrapper EXCEPT !.protocol_version = version]
       \/ \E hash_ \in {PyStr("h1"), vf_signed.foodblock.hash} \ {vf_wrapper.foodblock.hash} :
            vf_wrapper' = [vf_wrapper EXCEPT !.foodblock.hash = hash_]
    /\ vf_pc' = Rewritten
    /\ UNCHANGED <<vf_signed, vf_first, vf_second>>
    /\ UNCHANGED exceptVerify

\* wrapper["foodblock"]["type"] = ..., ["state"] = ... or ["refs"] = ...
RewriteContent ==
    /\ vf_pc \in {"signed", "verified"}
    /\ \/ \E type_ \in SignedTypes \ {vf_wrapper.foodblock.type} :
            vf_wrapper' = [vf_wrapper EXCEPT !.foodblock.type = type_]
       \/ \E state \in SignedStates \ {vf_wrapper.foodblock.state} :
            vf_wrapper' = [vf_wrapper EXCEPT !.foodblock.state = state]
       \/ \E refs \in SignedRefs \ {vf_wrapper.foodblock.refs} :
            vf_wrapper' = [vf_wrapper EXCEPT !.foodblock.refs = refs]
    /\ vf_pc' = Rewritten
    /\ UNCHANGED <<vf_signed, vf_first, vf_second>>
    /\ UNCHANGED exceptVerify

\* wrapper["signature"] = ...
RewriteSignature ==
    /\ vf_pc \in {"signed", "verified"}
    /\ \E signature \in SignaturesFor(vf_signed) \ {vf_wrapper.signature} :
         vf_wrapper' = [vf_wrapper EXCEPT !.signature = signature]
    /\ vf_pc' = Rewritten
    /\ UNCHANGED <<vf_signed, vf_first, vf_second>>
    /\ UNCHANGED exceptVerify

\* verify(wrapper, public_key_hex), the first and the second time
Verify ==
    /\ vf_pc \in {"signed", "rewritten", "verified", "rewritten again"}
    /\ \E public_key_hex \in KeysPassed :
         LET call == [wrapper |-> vf_wrapper, public_key_hex |-> public_key_hex,
                      verdict |-> verify(vf_wrapper, public_key_hex)]
         IN  IF vf_pc \in {"signed", "rewritten"}
             THEN /\ vf_first' = call
                  /\ vf_pc' = "verified"
                  /\ UNCHANGED vf_second
             ELSE /\ vf_second' = call
                  /\ vf_pc' = "done"
                  /\ UNCHANGED vf_first
    /\ UNCHANGED <<vf_signed, vf_wrapper>>
    /\ UNCHANGED exceptVerify

----------------------------------------------------------------------------
(***************************************************************************)
(* Specifications.                                                         *)
(***************************************************************************)
\* the functions modelled after merkle have not been called
IdleRest == IdleTrust /\ IdleTree /\ IdleCanonical /\ IdleQueue /\ IdleVerify

\* the functions modelled before them have not been called
IdleFirst ==
    /\ IdleCreate /\ IdleChain /\ IdleHead /\ IdleRecall /\ IdleForward
    /\ IdleMerge /\ IdleMerkle

\* the functions modelled after recall have not been called
IdleOthers == IdleForward /\ IdleMerge /\ IdleMerkle /\ IdleRest

InitCreate == ArgumentsOfCreate /\ IdleChain /\ IdleHead /\ IdleRecall /\ IdleOthers

NextCreate ==
    \/ Create
    \/ CreateSame
    \/ CreateKeysReordered
    \/ CreateRefsArrayReordered
    \/ CreateStateArrayReordered
    \/ Update

SpecCreate == InitCreate /\ [][NextCreate]_vars

InitChain == IdleCreate /\ EnterChain /\ IdleHead /\ IdleRecall /\ IdleOthers

NextChain ==
    \/ ChainResolve
    \/ ChainReturn

SpecChain == InitChain /\ [][NextChain]_vars

\* the event loop runs the coroutine to its end
FairSpecChain == SpecChain /\ WF_vars(NextChain)

InitHead == IdleCreate /\ IdleChain /\ CallerOfHead /\ IdleRecall /\ IdleOthers

NextHead ==
    \/ HeadCall
    \/ HeadForward
    \/ HeadReturn

SpecHead == InitHead /\ [][NextHead]_vars

\* the event loop runs the coroutine as long as it has a step to take
FairSpecHead == SpecHead /\ WF_vars(NextHead)

InitRecall == IdleCreate /\ IdleChain /\ IdleHead /\ EnterRecall /\ IdleOthers

NextRecall ==
    \/ RecallSkip
    \/ RecallExpand
    \/ RecallReturn

SpecRecall == InitRecall /\ [][NextRecall]_vars

InitForward ==
    /\ IdleCreate /\ IdleChain /\ IdleHead /\ IdleRecall /\ CallerOfForward
    /\ IdleMerge /\ IdleMerkle /\ IdleRest

NextForward ==
    \/ ForwardResolve
    \/ ForwardCollect

SpecForward == InitForward /\ [][NextForward]_vars

InitMerge ==
    /\ IdleCreate /\ IdleChain /\ IdleHead /\ IdleRecall /\ IdleForward
    /\ CallerOfMerge /\ IdleMerkle /\ IdleRest

NextMerge ==
    \/ DetectConflict
    \/ DetectConflictSwapped
    \/ MergeResolveBlocks
    \/ MergeDeriveState
    \/ MergeCreate

SpecMerge == InitMerge /\ [][NextMerge]_vars

InitMerkle ==
    /\ IdleCreate /\ IdleChain /\ IdleHead /\ IdleRecall /\ IdleForward
    /\ IdleMerge /\ CallerOfMerkle /\ IdleRest

NextMerkle ==
    \/ Merkleize
    \/ SelectiveDisclose
    \/ Tamper
    \/ VerifyProof

SpecMerkle == InitMerkle /\ [][NextMerkle]_vars

InitTrust ==
    /\ IdleFirst
    /\ CallerOfTrust /\ IdleTree /\ IdleCanonical /\ IdleQueue /\ IdleVerify

NextTrust ==
    \/ ComputeTrust
    \/ AddCertification

SpecTrust == InitTrust /\ [][NextTrust]_vars

InitTree ==
    /\ IdleFirst
    /\ IdleTrust /\ EnterTree /\ IdleCanonical /\ IdleQueue /\ IdleVerify

NextTree ==
    \/ TreeBuild
    \/ TreeDescend
    \/ TreeEndRole
    \/ TreeReturn

SpecTree == InitTree /\ [][NextTree]_vars

\* the event loop runs the coroutine as long as it has a step to take
FairSpecTree == SpecTree /\ WF_vars(NextTree)

InitCanonical ==
    /\ IdleFirst
    /\ IdleTrust /\ IdleTree /\ CallerOfCanonical /\ IdleQueue /\ IdleVerify

NextCanonical ==
    \/ Canonical
    \/ RewriteKey
    \/ RewriteRefsString

SpecCanonical == InitCanonical /\ [][NextCanonical]_vars

InitQueue ==
    /\ IdleFirst
    /\ IdleTrust /\ IdleTree /\ IdleCanonical /\ NewQueue /\ IdleVerify

NextQueue ==
    \/ QueueCreate
    \/ QueueUpdate
    \/ QueueSorted
    \/ SyncPost
    \/ SyncFails
    \/ SyncSucceeds

SpecQueue == InitQueue /\ [][NextQueue]_vars

InitVerify ==
    /\ IdleFirst
    /\ IdleTrust /\ IdleTree /\ IdleCanonical /\ IdleQueue /\ CallerOfVerify

NextVerify ==
    \/ Sign
    \/ RewriteEnvelope
    \/ RewriteContent
    \/ RewriteSignature
    \/ Verify

SpecVerify == InitVerify /\ [][NextVerify]_vars

----------------------------------------------------------------------------
(***************************************************************************)
(* Properties of create and update.                                        *)
(***************************************************************************)
RECURSIVE PyEq(_, _)
\* a == b on Python values: dicts are equal whatever their insertion order
PyEq(a, b) ==
    IF IsDict(a) /\ IsDict(b)
    THEN /\ KeySet(a) = KeySet(b)
         /\ \A k \in KeySet(a) : PyEq(Get(a, k), Get(b, k))
    ELSE a = b

BothCalled == cr_pc = "again"
BothReturned == BothCalled /\ ~Raised(cr_block) /\ ~Raised(cr_block2)
EqualArguments == PyEq(cr_state, cr_state2) /\ PyEq(cr_refs, cr_refs2)
SameOutcome ==
    /\ Raised(cr_block) <=> Raised(cr_block2)
    /\ ~Raised(cr_block) => cr_block.hash = cr_block2.hash

\* the caller passes a non-null instance_id
SuppliesInstanceId(state) == NotNone(Get(OrEmptyDict(state), "instance_id"))
\* create generates no instance_id for these arguments
Deterministic == ~is_event(cr_type) \/ SuppliesInstanceId(cr_state)

ReorderedBefore ==
    Get(IF cr_variant.kind = "refs_array" THEN cr_refs ELSE cr_state, cr_variant.key)
ReorderedAfter ==
    Get(IF cr_variant.kind = "refs_array" THEN cr_refs2 ELSE cr_state2, cr_variant.key)
NonNull(array) == SelectSeq(array.elems, NotNone)

RefsArrayReordered == BothReturned /\ cr_variant.kind = "refs_array" /\ Deterministic
StateArrayReordered == BothReturned /\ cr_variant.kind = "state_array" /\ Deterministic

C2_WitnessRefs ==
    /\ RefsArrayReordered
    /\ ReorderedAfter # ReorderedBefore
    /\ cr_block.hash = cr_block2.hash

\* C3: a block returned by create for an event type (transfer., transform.,
\* observe., not definitional) carries an instance_id, the caller's when
\* one was passed; a block of another type carries none that the caller did
\* not pass.
C3_EventBlocksCarryInstanceId ==
    (cr_pc = "created" /\ ~Raised(cr_block)) =>
        LET given == Get(_omit_nulls(OrEmptyDict(cr_state)), "instance_id")
            got == Get(cr_block.state, "instance_id")
        IN  IF is_event(cr_type)
            THEN /\ HasKey(cr_block.state, "instance_id")
                 /\ NotNone(given) => got = given
            ELSE got = given

\* C4: the block update returns has refs.updates = previous_hash, also when
\* the caller's refs hold another updates entry, and holds every other role
\* of the caller's refs with the value given (a role given as null is absent)
\* and no further role.
C4_UpdateSetsUpdatesRef ==
    (cr_pc = "updated" /\ ~Raised(cr_block)) =>
        /\ Get(cr_block.refs, "updates") = cr_previous_hash
        /\ \A role \in RefRoles \ {"updates"} :
              Get(cr_block.refs, role) = Get(OrEmptyDict(cr_refs), role)
        /\ KeySet(cr_block.refs) \subseteq KeySet(OrEmptyDict(cr_refs)) \cup {"updates"}

\* update overwrote a different updates entry of the caller and kept the
\* caller's other role
C4_Witness ==
    /\ cr_pc = "updated"
    /\ ~Raised(cr_block)
    /\ HasKey(OrEmptyDict(cr_refs), "updates")
    /\ IsStr(Get(cr_refs, "updates"))
    /\ Get(cr_refs, "updates") # cr_previous_hash
    /\ NotNone(Get(cr_refs, "inputs"))
    /\ Get(cr_block.refs, "inputs") = Get(cr_refs, "inputs")
    /\ Get(cr_block.refs, "updates") = cr_previous_hash

----------------------------------------------------------------------------
(***************************************************************************)
(* Properties of chain.                                                    *)
(***************************************************************************)
Min(a, b) == IF a < b THEN a ELSE b

\* the sequences of hashes that may be a line of updates
Lines == UNION {[1..n -> Hashes] : n \in 1..Cardinality(Hashes)}

\* line[1] is updated from line[2], ..., from line[N]: every block of the
\* line is stored, each but the last has refs.updates = the next, the last
\* has no refs.updates
IsUpdateLine(store, line) ==
    /\ \A i \in 1..Len(line) : store[line[i]] # None
    /\ \A i \in 1..(Len(line) - 1) :
          Get(store[line[i]].refs, "updates") = PyStr(line[i + 1])
    /\ ~HasKey(store[line[Len(line)]].refs, "updates")
    /\ \A i, j \in 1..Len(line) : line[i] = line[j] => i = j

\* C5: on a line of N sequential updates that all resolve, chain(start,
\* resolve, max_depth = k) returns the first min(k, N) blocks of the line,
\* newest first: element 0 is the start block and element i the block i
\* refs.updates hops further.
C5_ChainReturnsNewestFirst ==
    (ch_pc = "done" /\ ch_resolver = "store") =>
        \A line \in Lines :
            (line[1] = ch_start_hash.s /\ IsUpdateLine(ch_store, line)) =>
                ch_result = [i \in 1..Min(ch_max_depth, Len(line)) |->
                               ch_store[line[i]]]

\* chain stopped at max_depth = 2 on a line of three updates
C5_Witness ==
    /\ ch_pc = "done"
    /\ ch_resolver = "store"
    /\ \E line \in Lines :
          /\ Len(line) = 3
          /\ line[1] = ch_start_hash.s
          /\ IsUpdateLine(ch_store, line)
    /\ ch_max_depth = 2
    /\ Len(ch_result) = 2

\* at most max_depth resolver calls, no hash resolved twice, and the
\* result is the blocks the resolver returned, in the order of the calls
ChainBounded ==
    /\ Len(ch_calls) <= ch_max_depth
    /\ \A i, j \in 1..Len(ch_calls) : ch_calls[i] = ch_calls[j] => i = j
    /\ ch_pc = "done" => ch_result = SelectSeq(ch_answers, Truthy)

----------------------------------------------------------------------------
(***************************************************************************)
(* Properties of head.                                                     *)
(***************************************************************************)
\* the block is a later version of the hash h: its refs.updates is h or a
\* list that contains h
UpdatesHash(block, h) ==
    LET updates == Get(block.refs, "updates")
    IN  \/ updates = PyStr(h)
        \/ IsList(updates) /\ PyStr(h) \in Range(updates.elems)

\* the stored blocks that update h, in the order resolve_forward returns them
LaterVersions(h) ==
    SelectSeq(resolve_forward(hd_blocks, PyStr(h)), LAMBDA b : UpdatesHash(b, h))

RECURSIVE UpdatedWithin(_, _)
\* the hashes of the blocks that update h through 1 to n updates
UpdatedWithin(h, n) ==
    IF n = 0 THEN {}
    ELSE LET direct == {b.hash.s : b \in Range(LaterVersions(h))}
         IN  direct \cup UNION {UpdatedWithin(g, n - 1) : g \in direct}

\* no block is a later version of itself
AcyclicUpdates ==
    \A h \in Hashes : h \notin UpdatedWithin(h, Cardinality(Hashes))

RECURSIVE FollowFirst(_, _)
\* the hash reached from h by n times taking the first later version, or
\* fewer when a hash without later version is reached
FollowFirst(h, n) ==
    IF n = 0 \/ LaterVersions(h) = <<>> THEN h
    ELSE FollowFirst(LaterVersions(h)[1].hash.s, n - 1)

RECURSIVE HopsToLatest(_, _)
\* the number of first later versions that follow h, counted up to n
HopsToLatest(h, n) ==
    IF n = 0 \/ LaterVersions(h) = <<>> THEN 0
    ELSE 1 + HopsToLatest(LaterVersions(h)[1].hash.s, n - 1)

\* A updates B and B updates A, for the start block A and another block B
StartOnUpdateCycle ==
    \E g \in Hashes \ {hd_start_hash.s} :
        /\ LaterVersions(hd_start_hash.s) # <<>>
        /\ LaterVersions(hd_start_hash.s)[1].hash.s = g
        /\ LaterVersions(g) # <<>>
        /\ LaterVersions(g)[1].hash.s = hd_start_hash.s

\* C7: head(start_hash, resolve_forward) terminates when the forward update
\* relation has a cycle (A updates B and B updates A), and returns one of
\* the hashes of the cycle.
C7_HeadTerminatesOnCycle ==
    (hd_pc = "loop" /\ StartOnUpdateCycle)
        ~> (hd_pc = "done" /\ hd_current.s \in UpdatedWithin(hd_start_hash.s, 2))

\* C8: on an acyclic update graph head returns the hash reached from
\* start_hash by taking, step after step, the first block returned by
\* resolve_forward whose refs.updates equals or contains the current hash;
\* no block updates the hash returned, and for a start block that no block
\* updates it is start_hash.
C8_HeadReturnsLatest ==
    (hd_pc = "done" /\ AcyclicUpdates) =>
        /\ hd_current.s = FollowFirst(hd_start_hash.s, Cardinality(Hashes))
        /\ LaterVersions(hd_current.s) = <<>>

\* head walked two updates forward, past a block that only references the
\* start block as an input
C8_Witness ==
    /\ hd_pc = "done"
    /\ AcyclicUpdates
    /\ HopsToLatest(hd_start_hash.s, Cardinality(Hashes)) = 2
    /\ hd_current # hd_start_hash
    /\ LaterVersions(hd_current.s) = <<>>

\* C9: head called with max_depth = k on a chain with more than k later
\* versions returns the hash of the k-th successor of the start block.
C9_HeadStopsAtMaxDepth ==
    (/\ hd_pc \in {"done", "raised"}
     /\ hd_max_depth # None
     /\ AcyclicUpdates
     /\ HopsToLatest(hd_start_hash.s, Cardinality(Hashes)) > hd_max_depth.n)
        => /\ hd_pc = "done"
           /\ hd_current.s = FollowFirst(hd_start_hash.s, hd_max_depth.n)

----------------------------------------------------------------------------
(***************************************************************************)
(* Properties of recall.                                                   *)
(***************************************************************************)
\* the hashes of the blocks collected in affected, in order
AffectedHashes == [i \in 1..Len(rc_affected) |-> rc_affected[i].hash]

\* C10: at every turn of recall's loop, and in what it returns, no hash
\* occurs twice in affected and the source hash never occurs in it, also
\* when the resolver returns the same block several times.
C10_AffectedOnceAndNeverSource ==
    /\ \A i, j \in 1..Len(rc_affected) :
          AffectedHashes[i] = AffectedHashes[j] => i = j
    /\ \A i \in 1..Len(rc_affected) : AffectedHashes[i] # rc_source_hash

\* recall has returned; the resolver returned one block twice for the source
\* hash, and it returned the block of the source hash for an affected block
C10_Witness ==
    /\ rc_pc = "done"
    /\ Len(rc_affected) >= 2
    /\ LET children == resolve_forward(rc_blocks, rc_source_hash)
       IN  \E i, j \in 1..Len(children) : i # j /\ children[i] = children[j]
    /\ \E i \in 1..Len(rc_affected) :
          LET children == resolve_forward(rc_blocks, rc_affected[i].hash)
          IN  \E j \in 1..Len(children) : children[j].hash = rc_source_hash

\* the hashes of the stored blocks that hold hash_ in one of their refs
ReferencedBy(hash_) ==
    {rc_blocks[i].hash : i \in {k \in 1..Len(rc_blocks) :
        \E j \in 1..Len(Mentions(rc_blocks[k])) : Mentions(rc_blocks[k])[j] = hash_}}

RECURSIVE WithinHops(_)
\* the hashes reached from the source in at most n reverse-reference hops
WithinHops(n) ==
    IF n = 0 THEN {rc_source_hash}
    ELSE LET nearer == WithinHops(n - 1)
         IN  nearer \cup UNION {ReferencedBy(h) : h \in nearer}

NoFilter == rc_types = None /\ rc_roles = None

\* C11: without types and roles filter, recall returns in affected exactly
\* the stored blocks, other than the source, that are within 1 to max_depth
\* reverse-reference hops of source_hash.
C11_AffectedIsReachableWithinMaxDepth ==
    (rc_pc = "done" /\ NoFilter) =>
        {rc_affected[i] : i \in 1..Len(rc_affected)}
          = {rc_blocks[i] : i \in {k \in 1..Len(rc_blocks) :
                /\ rc_blocks[k].hash \in WithinHops(rc_max_depth)
                /\ rc_blocks[k].hash # rc_source_hash}}

\* recall has returned without filter; max_depth is 2, a block is at two
\* hops and reported, and a block at three hops is left out
C11_Witness ==
    /\ rc_pc = "done"
    /\ NoFilter
    /\ rc_max_depth = 2
    /\ WithinHops(2) # WithinHops(1)
    /\ WithinHops(3) # WithinHops(2)
    /\ Len(rc_affected) = 2

\* the roles recall may follow: all of them without a roles filter
AllowedRoles ==
    IF rc_roles = None THEN RefRoles
    ELSE {rc_roles.elems[i].s : i \in 1..Len(rc_roles.elems)}

\* a stored block of hash h holds hash g in a ref of an allowed role
HoldsInAllowedRole(h, g) ==
    \E k \in 1..Len(rc_blocks) :
        /\ rc_blocks[k].hash = h
        /\ \E role \in AllowedRoles :
              /\ HasKey(BlockRefs(rc_blocks[k]), role)
              /\ LET ref == Get(BlockRefs(rc_blocks[k]), role)
                 IN  IF IsList(ref) THEN \E j \in 1..Len(ref.elems) : ref.elems[j] = g
                     ELSE ref = g

\* C12: recall keeps one path per affected block, in the same order; paths[i]
\* starts with source_hash, ends with affected[i].hash, has at most
\* max_depth + 1 elements, and every later element is the hash of a block
\* that holds the element before it in a ref of a role the roles filter allows.
C12_OnePathPerAffectedBlock ==
    /\ Len(rc_paths) = Len(rc_affected)
    /\ \A i \in 1..Len(rc_paths) :
          LET p == rc_paths[i]
          IN  /\ Len(p) >= 2
              /\ Len(p) <= rc_max_depth + 1
              /\ p[1] = rc_source_hash
              /\ p[Len(p)] = rc_affected[i].hash
              /\ \A n \in 2..Len(p) : HoldsInAllowedRole(p[n], p[n - 1])

\* recall has returned under a roles filter with a path of three hashes,
\* from a store in which a block references the source in another role only
C12_Witness ==
    /\ rc_pc = "done"
    /\ rc_roles # None
    /\ \E i \in 1..Len(rc_paths) : Len(rc_paths[i]) = 3
    /\ \E k \in 1..Len(rc_blocks) :
          /\ rc_blocks[k].hash \in ReferencedBy(rc_source_hash)
          /\ ~HoldsInAllowedRole(rc_blocks[k].hash, rc_source_hash)

RECURSIVE WithinAllowedHops(_)
\* the hashes reached from the source in at most n hops along references of
\* allowed roles
WithinAllowedHops(n) ==
    IF n = 0 THEN {rc_source_hash}
    ELSE LET nearer == WithinAllowedHops(n - 1)
         IN  nearer \cup {rc_blocks[k].hash : k \in {i \in 1..Len(rc_blocks) :
                            \E g \in nearer :
                                HoldsInAllowedRole(rc_blocks[i].hash, g)}}

\* the type of the block starts with one of the prefixes of the types filter
TypeMatches(block) ==
    \E i \in 1..Len(rc_types.elems) : startswith(block.type.s, rc_types.elems[i].s)

\* the stored blocks other than the source within max_depth hops
BlocksWithinMaxDepth ==
    {rc_blocks[i] : i \in {k \in 1..Len(rc_blocks) :
        /\ rc_blocks[k].hash \in WithinAllowedHops(rc_max_depth)
        /\ rc_blocks[k].hash # rc_source_hash}}

\* C13: under a types filter, a referencing block whose type matches no
\* prefix is traversed (it is entered in visited) but is never in affected or
\* paths; every block of a matching type within max_depth hops, through
\* matching and non-matching blocks alike, is in affected; and downstream
\* returns the affected list of recall with types = ["substance"].
C13_TypesFilterTraversesNonMatching ==
    /\ rc_types # None =>
          /\ \A i \in 1..Len(rc_affected) : TypeMatches(rc_affected[i])
          /\ Len(rc_paths) = Len(rc_affected)
    /\ (rc_pc = "done" /\ rc_types # None) =>
          LET within == BlocksWithinMaxDepth
          IN  /\ {rc_affected[i] : i \in 1..Len(rc_affected)}
                    = {b \in within : TypeMatches(b)}
              /\ \A b \in within : b.hash \in rc_visited
    /\ (rc_pc = "done" /\ rc_entered = "downstream") =>
          rc_returned = recall(rc_blocks, rc_source_hash, rc_max_depth,
                               PyList(<<PyStr("substance")>>), None).affected

\* downstream has returned a block that it reached through a block of
\* another type, which it left out
C13_Witness ==
    /\ rc_pc = "done"
    /\ rc_entered = "downstream"
    /\ \E i \in 1..Len(rc_paths) :
          /\ Len(rc_paths[i]) = 3
          /\ \E k \in 1..Len(rc_blocks) :
                /\ rc_blocks[k].hash = rc_paths[i][2]
                /\ ~TypeMatches(rc_blocks[k])
                /\ rc_returned[i] = rc_affected[i]

\* the largest hop distance from the source, along references of allowed
\* roles, of a block within max_depth hops
DeepestEntered ==
    LET levels == {n \in 1..rc_max_depth :
                      WithinAllowedHops(n) # WithinAllowedHops(n - 1)}
    IN  IF levels = {} THEN 0
        ELSE CHOOSE n \in levels : \A m \in levels : m <= n

\* C14: the depth recall returns is the largest hop distance from the source
\* of any block the traversal entered, also when a types filter keeps the
\* deepest entered blocks out of affected; it is 0 when nothing references
\* the source and it never exceeds max_depth.
C14_DepthIsDeepestEntered ==
    (rc_pc = "done" /\ rc_entered = "recall") =>
        /\ rc_returned.depth = DeepestEntered
        /\ rc_returned.depth <= rc_max_depth
        /\ ReferencedBy(rc_source_hash) = {} => rc_returned.depth = 0

----------------------------------------------------------------------------
(***************************************************************************)
(* Properties of forward.                                                  *)
(***************************************************************************)
\* the node has a refs dict that holds hash_val
HoldsHashVal(node) ==
    /\ "refs" \in DOMAIN node
    /\ IsDict(node.refs)
    /\ \E i \in 1..Len(node.refs.pairs) :
          LET ref == node.refs.pairs[i][2]
          IN  IF IsList(ref) THEN \E j \in 1..Len(ref.elems) : ref.elems[j] = fw_hash_val
              ELSE ref = fw_hash_val

\* the node has no hash, no refs, or refs null
Malformed(node) ==
    \/ "hash" \notin DOMAIN node
    \/ "refs" \notin DOMAIN node
    \/ node.refs = None

\* C15: a malformed node in the answer of the resolver (no hash, refs missing
\* or null), or an empty answer, never makes forward raise: it returns, and
\* its result holds every well-formed node of the answer that references
\* hash_val.
C15_MalformedNodesAreSkipped ==
    /\ fw_pc # "raised"
    /\ fw_pc = "done" =>
          \A i \in 1..Len(fw_children) :
              (~Malformed(fw_children[i]) /\ HoldsHashVal(fw_children[i])) =>
                  \E j \in 1..Len(fw_result.referencing) :
                      fw_result.referencing[j].block = fw_children[i]

----------------------------------------------------------------------------
(***************************************************************************)
(* Properties of detect_conflict and merge.                                *)
(***************************************************************************)
\* the hash a stored block updates, None when it updates nothing
Updated(block) ==
    IF ~HasKey(block.refs, "updates") THEN None
    ELSE LET updates == Get(block.refs, "updates")
         IN  IF IsList(updates)
             THEN (IF Len(updates.elems) > 0 THEN updates.elems[1] ELSE None)
             ELSE updates

RECURSIVE Backward(_, _)
\* the hashes of the backward update chain of hash_, newest first
Backward(hash_, seen) ==
    IF hash_ = None \/ hash_ \in seen THEN <<>>
    ELSE IF mg_store[hash_.s] = None THEN <<>>
    ELSE <<hash_>> \o Backward(Updated(mg_store[hash_.s]), seen \cup {hash_})

BackwardChain(hash_) == Backward(hash_, {})

OnChain(hash_) == {BackwardChain(hash_)[i] : i \in 1..Len(BackwardChain(hash_))}

DetectConflictReturned ==
    mg_pc = "done" /\ mg_entered = "detect_conflict" /\ mg_hash_a # mg_hash_b

\* C16: for two different hashes, detect_conflict reports is_conflict exactly
\* when the two backward update chains share a block and neither hash lies on
\* the chain of the other; common_ancestor is then the first block of chain_a,
\* newest first, that lies on chain_b; when one hash is an ancestor of the
\* other, is_conflict is false.
C16_ConflictIffForkWithCommonAncestor ==
    DetectConflictReturned =>
        LET chain_a == BackwardChain(mg_hash_a)
            on_a == OnChain(mg_hash_a)
            on_b == OnChain(mg_hash_b)
            shared == SelectSeq(chain_a, LAMBDA h : h \in on_b)
        IN  /\ mg_result.is_conflict
                <=> (on_a \cap on_b # {} /\ mg_hash_a \notin on_b /\ mg_hash_b \notin on_a)
            /\ mg_result.is_conflict => mg_result.common_ancestor = shared[1]
            /\ (mg_hash_a \in on_b \/ mg_hash_b \in on_a) => ~mg_result.is_conflict

\* detect_conflict has returned for two independent updates of one original:
\* a conflict whose common ancestor is the original
C16_Witness ==
    /\ DetectConflictReturned
    /\ mg_result.is_conflict
    /\ \E orig \in Hashes \ {mg_hash_a.s, mg_hash_b.s} :
          /\ mg_result.common_ancestor = PyStr(orig)
          /\ Updated(mg_store[mg_hash_a.s]) = PyStr(orig)
          /\ Updated(mg_store[mg_hash_b.s]) = PyStr(orig)

AWinsReturned ==
    /\ mg_pc = "done"
    /\ mg_entered = "merge"
    /\ mg_state = None
    /\ mg_strategy = PyStr("a_wins")

MergeRefsOf(hash_a, hash_b) ==
    PyDict(<< <<"merge_a", hash_a>>, <<"merge_b", hash_b>> >>)

\* C17 as stated: merge with strategy a_wins and no explicit state returns an
\* observe.merge block whose state equals the state of block A and whose refs
\* are merge_a = hash_a and merge_b = hash_b.
C17_AWinsStateEqualsStateOfA ==
    (AWinsReturned /\ mg_store[mg_hash_a.s] # None) =>
        /\ ~Raised(mg_result)
        /\ mg_result.type = PyStr("observe.merge")
        /\ PyEq(mg_result.state, mg_store[mg_hash_a.s].state)
        /\ PyEq(mg_result.refs, MergeRefsOf(mg_hash_a, mg_hash_b))

\* the fields of a state that merge takes over as they are: the non-null
\* fields other than _merge and instance_id
TakenOver(state) ==
    {k \in KeySet(state) \ {"_merge", "instance_id"} : Get(state, k) # None}

\* C17 amended: merge with strategy a_wins and no explicit state returns an
\* observe.merge block with refs merge_a = hash_a and merge_b = hash_b whose
\* state holds, besides _merge and instance_id, exactly the non-null fields of
\* the state of block A (none when hash_a does not resolve), and whose _merge
\* field records the strategy.
C17_AWinsStateHoldsFieldsOfA ==
    AWinsReturned =>
        LET state_a == IF mg_store[mg_hash_a.s] = None THEN EmptyDict
                       ELSE mg_store[mg_hash_a.s].state
        IN  /\ ~Raised(mg_result)
            /\ mg_result.type = PyStr("observe.merge")
            /\ TakenOver(mg_result.state) = TakenOver(state_a)
            /\ \A k \in TakenOver(state_a) : Get(mg_result.state, k) = Get(state_a, k)
            /\ HasKey(mg_result.state, "_merge")
            /\ Get(Get(mg_result.state, "_merge"), "strategy") = PyStr("a_wins")
            /\ PyEq(mg_result.refs, MergeRefsOf(mg_hash_a, mg_hash_b))

\* merge has returned under a_wins for two different resolved blocks, block A
\* with a null field in its state
C17_Witness ==
    /\ AWinsReturned
    /\ mg_hash_a # mg_hash_b
    /\ mg_block_a # None
    /\ mg_block_b # None
    /\ HasKey(mg_block_a.state, "note")
    /\ Get(mg_result.state, "price") = PyInt(5)

KnownStrategies == {PyStr("a_wins"), PyStr("b_wins"), PyStr("manual")}

\* C18: merge called with a strategy other than a_wins, b_wins or manual and
\* no explicit state fails with a validation error raised before resolve is
\* called and before any chain is walked, and it creates no merge block.
C18_UnknownStrategyRaisedAtTheBoundary ==
    (mg_entered = "merge" /\ mg_state = None /\ mg_strategy \notin KnownStrategies) =>
        /\ mg_pc # "done"
        /\ mg_pc = "raised" =>
              /\ mg_result = Raise("ValueError")
              /\ mg_calls = <<>>

----------------------------------------------------------------------------
(***************************************************************************)
(* Properties of merkleize, selective_disclose and verify_proof.           *)
(***************************************************************************)
AllFieldsDisclosed == Range(mk_field_names) = KeySet(mk_state)

\* C19: for a non-empty state, the disclosure of all of its fields verifies,
\* and its root is the root of merkleize(state), for every number of fields,
\* odd numbers included.
C19_DisclosingAllFieldsVerifies ==
    (mk_pc = "done" /\ mk_tampered = None /\ AllFieldsDisclosed) =>
        /\ mk_verified
        /\ mk_disclosure.root = mk_tree.root

\* all three fields of a state were disclosed and the proof, which holds the
\* last leaf paired with itself, was verified
C19_Witness ==
    /\ mk_pc = "done"
    /\ mk_tampered = None
    /\ AllFieldsDisclosed
    /\ Len(mk_state.pairs) = 3
    /\ Len(mk_disclosure.proof) = 1
    /\ mk_verified

\* C20: for every state and every non-empty subset of its field names, the
\* proof of selective_disclose(state, subset) verifies against the root of
\* merkleize(state), wherever the disclosed fields lie among the sorted leaves.
C20_EverySubsetVerifies ==
    (mk_pc = "done" /\ mk_tampered = None) =>
        /\ mk_verified
        /\ mk_disclosure.root = mk_tree.root

\* C21: when the caller has replaced the value or the name of one disclosed
\* field by a different one and kept proof and root, verify_proof returns
\* false; for an empty disclosed mapping it returns false as well.
C21_AlteredDataIsRejected ==
    (mk_pc = "done" /\ mk_tampered # None) => ~mk_verified

\* a proof that verifies as disclosed was checked with one value replaced,
\* and was rejected
C21_Witness ==
    /\ mk_pc = "done"
    /\ mk_tampered # None
    /\ mk_tampered # EmptyDict
    /\ Keys(mk_tampered) = Keys(mk_disclosure.disclosed)
    /\ AllFieldsDisclosed
    /\ Len(mk_state.pairs) = 3
    /\ ~mk_verified

\* an empty mapping was checked against a proof and a root, and was rejected
C21_WitnessEmpty ==
    /\ mk_pc = "done"
    /\ mk_tampered = EmptyDict
    /\ ~mk_verified

----------------------------------------------------------------------------
(***************************************************************************)
(* Properties of compute_trust.                                            *)
(***************************************************************************)
\* C22: one more valid certification of the actor raises authority_certs by
\* exactly one and strictly raises the score, for every corpus and all
\* positive weights.
C22_OneMoreCertificationRaisesTheScore ==
    tr_pc = "done" =>
        /\ tr_results[2].inputs.authority_certs = tr_results[1].inputs.authority_certs + 1
        /\ RatLess(tr_results[1].score, tr_results[2].score)
----------------------------------------------------------------------------
(***************************************************************************)
(* Properties of tree.                                                     *)
(***************************************************************************)
\* the subtrees an ancestors value holds
SubtreesOf(value) == IF value.t = "list" THEN value.elems ELSE <<value>>

\* the subtrees right below the root of a tree
TreeChildren(node) ==
    Flatten([i \in 1..Len(node.ancestors.pairs) |-> SubtreesOf(node.ancestors.pairs[i][2])])

RECURSIVE TreeHashes(_)
\* the hashes of the blocks of a tree, one entry for each place a block
\* holds in it
TreeHashes(node) ==
    LET children == TreeChildren(node)
    IN  <<node.block.hash>> \o Flatten([i \in 1..Len(children) |-> TreeHashes(children[i])])

RECURSIVE TreeHeight(_)
\* the number of levels below the root of a tree
TreeHeight(node) ==
    LET children == TreeChildren(node)
        below == {TreeHeight(children[i]) : i \in 1..Len(children)}
    IN  IF children = <<>> THEN 0
        ELSE 1 + (CHOOSE m \in below : \A n \in below : n <= m)

RECURSIVE RolesWellShaped(_)
\* at every block of the tree, a role of ancestors is a role of the refs of
\* the block and holds one subtree, bare, or two or more in a list, each a
\* target of that role
RolesWellShaped(node) ==
    /\ \A i \in 1..Len(node.ancestors.pairs) :
          LET role == node.ancestors.pairs[i][1]
              value == node.ancestors.pairs[i][2]
          IN  /\ HasKey(BlockRefs(node.block), role)
              /\ value.t = "list" => Len(value.elems) > 1
              /\ \A k \in 1..Len(SubtreesOf(value)) :
                    /\ SubtreesOf(value)[k].t = "tree"
                    /\ SubtreesOf(value)[k].block.hash
                         \in Range(HashesOfRef(Get(BlockRefs(node.block), role)))
    /\ \A k \in 1..Len(TreeChildren(node)) : RolesWellShaped(TreeChildren(node)[k])

\* the returned tree holds every hash at most once, is at most
\* max_depth - 1 levels high, and is well shaped at every role
TreeIsSound ==
    tt_result # None =>
        LET hashes == TreeHashes(tt_result)
        IN  /\ Cardinality(Range(hashes)) = Len(hashes)
            /\ TreeHeight(tt_result) <= tt_max_depth - 1
            /\ RolesWellShaped(tt_result)

\* C23: tree returns on every store, cyclic ones included; the tree it
\* returns holds every block hash at most once and no block deeper than
\* max_depth - 1 levels below the start block, and a role holds a bare
\* subtree for one resolved target and a list for several.
C23_TreeTerminatesAndIsSound ==
    /\ <>(tt_pc = "done")
    /\ [](tt_pc = "done" => TreeIsSound)

\* tree returned on a store where the start block and h1 reference each
\* other, with h1 and h2 in a list under one role of the start block
C23_Witness ==
    /\ tt_pc = "done"
    /\ tt_result # None
    /\ tt_store["h1"] # None
    /\ PyStr(SourceHash) \in Range(Mentions(tt_store["h1"]))
    /\ Get(tt_result.ancestors, "inputs").t = "list"
    /\ Len(TreeHashes(tt_result)) = 3

RECURSIVE ResolvedWithin(_)
\* the hashes that resolve and lie at most n hops of refs from the start
\* hash, every block on the way resolving
ResolvedWithin(n) ==
    IF n = 0
    THEN {h \in {PyStr(SourceHash)} : tt_store[h.s] # None}
    ELSE LET nearer == ResolvedWithin(n - 1)
         IN  nearer \cup {h \in UNION {Range(Mentions(tt_store[g.s])) : g \in nearer} :
                             tt_store[h.s] # None}

\* C24: every block that resolves and lies fewer than max_depth hops of refs
\* from the start hash is in the returned tree.
C24_TreeHoldsEveryReachableBlock ==
    (tt_pc = "done" /\ tt_max_depth > 0) =>
        \A h \in ResolvedWithin(tt_max_depth - 1) :
            tt_result # None /\ h \in Range(TreeHashes(tt_result))

----------------------------------------------------------------------------
(***************************************************************************)
(* Properties of the refs a block is stored with.                          *)
(***************************************************************************)
\* every list-valued ref of the block holds its hashes in ascending order
RefsStoredSorted(block) ==
    \A i \in 1..Len(block.refs.pairs) :
        LET value == block.refs.pairs[i][2]
        IN  IsList(value) =>
                \A j, k \in 1..Len(value.elems) :
                    j < k => ~StrLess(value.elems[k].s, value.elems[j].s)

\* C25: the blocks two create calls return, whose refs arrays differ only in
\* element order, hold their refs arrays sorted and hold equal refs, and
\* chain goes on from the same hash of refs.updates for both.
C25_RefsArraysAreStoredSorted ==
    (/\ cr_pc = "again"
     /\ cr_variant.kind = "refs_array"
     /\ ~Raised(cr_block)
     /\ ~Raised(cr_block2)) =>
        /\ RefsStoredSorted(cr_block)
        /\ RefsStoredSorted(cr_block2)
        /\ cr_block2.refs = cr_block.refs
        /\ NextOfUpdates(Get(cr_block2.refs, "updates"))
             = NextOfUpdates(Get(cr_block.refs, "updates"))

----------------------------------------------------------------------------
(***************************************************************************)
(* Properties of canonical.                                                *)
(***************************************************************************)
\* C26: two inputs that differ only in the normalization form of one key or
\* of one string of a refs array have the same canonical string and the
\* same hash.
C26_NormalizationFormIsIrrelevant ==
    cn_pc = "done" => cn_results[2] = cn_results[1]

----------------------------------------------------------------------------
(***************************************************************************)
(* Properties of OfflineQueue.                                             *)
(***************************************************************************)
\* the positions of the blocks of hash h in a list of blocks
PositionsOf(blocks, h) == {i \in 1..Len(blocks) : blocks[i].hash = h}

\* result holds the block of every hash of the queue exactly once and
\* nothing else, each block after the queued blocks its refs point to
InDependencyOrder(queue, result) ==
    /\ \A i \in 1..Len(queue) : Cardinality(PositionsOf(result, queue[i].hash)) = 1
    /\ Range(result) \subseteq Range(queue)
    /\ \A i, j \in 1..Len(result) :
          (i # j /\ result[j].hash \in Range(Mentions(result[i]))) => j < i

\* C27: sorted() returns every queued block exactly once, a block being the
\* block of one hash, each after every queued block one of its refs points
\* to, and leaves the queue as it was.
C27_SortedIsDependencyOrder ==
    q_sorted # None =>
        /\ InDependencyOrder(q_sorted.before, q_sorted.result)
        /\ q_sorted.after = q_sorted.before

\* sorted() was called on a queue of three blocks whose first block points
\* to the second and whose second points to the third
C27_Witness ==
    /\ q_sorted # None
    /\ Len(q_sorted.before) = 3
    /\ q_sorted.before[2].hash \in Range(Mentions(q_sorted.before[1]))
    /\ q_sorted.before[3].hash \in Range(Mentions(q_sorted.before[2]))
    /\ q_sorted.result = <<q_sorted.before[3], q_sorted.before[2], q_sorted.before[1]>>

\* C28: every block ever added to the queue is in the queue or was in a
\* batch whose post succeeded.
C28_NoQueuedBlockIsLost ==
    \A block \in Range(q_added) : block \in Range(q_blocks) \/ block \in q_posted

----------------------------------------------------------------------------
(***************************************************************************)
(* Properties of detect_conflict called both ways.                         *)
(***************************************************************************)
\* no backward update chain of the store comes back to a block it holds
AcyclicMergeStore ==
    \A h \in Hashes :
        LET chain == BackwardChain(PyStr(h))
        IN  chain # <<>> => Updated(mg_store[chain[Len(chain)].s]) \notin OnChain(PyStr(h))

\* the last block of the chain is the block of hash_
EndsAt(chain_blocks, hash_) ==
    chain_blocks # <<>> /\ chain_blocks[Len(chain_blocks)].hash = hash_

\* C29: on a store without update cycles, detect_conflict(a, b) and
\* detect_conflict(b, a) report the same is_conflict and common_ancestor,
\* with chain_a and chain_b swapped, and both chains end at the common
\* ancestor whenever one is reported.
C29_DetectConflictIsSymmetric ==
    (mg_pc = "swapped" /\ AcyclicMergeStore) =>
        /\ mg_swapped.is_conflict = mg_result.is_conflict
        /\ mg_swapped.common_ancestor = mg_result.common_ancestor
        /\ mg_swapped.chain_a = mg_result.chain_b
        /\ mg_swapped.chain_b = mg_result.chain_a
        /\ mg_result.common_ancestor # None =>
              /\ EndsAt(mg_result.chain_a, mg_result.common_ancestor)
              /\ EndsAt(mg_result.chain_b, mg_result.common_ancestor)

----------------------------------------------------------------------------
(***************************************************************************)
(* Properties of verify.                                                   *)
(***************************************************************************)
VerifyCalls == {vf_first, vf_second} \ {None}

\* the canonical form of the block a wrapper holds
ContentOf(wrapper) ==
    canonical(wrapper.foodblock.type, wrapper.foodblock.state, wrapper.foodblock.refs)

\* type, state and refs of the block a wrapper holds
FieldsOf(wrapper) ==
    <<wrapper.foodblock.type, wrapper.foodblock.state, wrapper.foodblock.refs>>

\* not the hex of the 64 bytes of a signature
MalformedSignature(signature) ==
    signature.t # "str" \/ "hex" \notin DOMAIN signature
        \/ signature.hex.signer \notin PrivateKeys

\* C30 as stated: two calls whose wrappers differ only in author_hash,
\* protocol_version or foodblock.hash get the same verdict for the same key;
\* with the signature sign returned, a wrapper whose type, state or refs is
\* no longer what was signed gets false; a malformed signature gets false.
C30_VerdictDependsOnFieldsSignatureAndKey ==
    /\ (/\ vf_pc = "done"
        /\ FieldsOf(vf_first.wrapper) = FieldsOf(vf_second.wrapper)
        /\ vf_first.wrapper.signature = vf_second.wrapper.signature
        /\ vf_first.public_key_hex = vf_second.public_key_hex)
           => vf_first.verdict = vf_second.verdict
    /\ \A call \in VerifyCalls :
         (call.public_key_hex \in PublicKeys) =>
           /\ ((/\ call.wrapper.signature = vf_signed.signature
                /\ FieldsOf(call.wrapper) # FieldsOf(vf_signed))
                   => call.verdict = PyBool(FALSE))
           /\ (MalformedSignature(call.wrapper.signature) => call.verdict = PyBool(FALSE))

\* C30, amended: the verdict depends only on the canonical form of type,
\* state and refs, on the signature and on the key; with the signature sign
\* returned, a wrapper whose canonical form is no longer the one signed gets
\* false; with a well-formed key a malformed signature gets false.
C30_VerdictDependsOnCanonicalFormSignatureAndKey ==
    /\ (/\ vf_pc = "done"
        /\ ContentOf(vf_first.wrapper) = ContentOf(vf_second.wrapper)
        /\ vf_first.wrapper.signature = vf_second.wrapper.signature
        /\ vf_first.public_key_hex = vf_second.public_key_hex)
           => vf_first.verdict = vf_second.verdict
    /\ \A call \in VerifyCalls :
         (call.public_key_hex \in PublicKeys) =>
           /\ ((/\ call.wrapper.signature = vf_signed.signature
                /\ ContentOf(call.wrapper) # ContentOf(vf_signed))
                   => call.verdict = PyBool(FALSE))
           /\ (MalformedSignature(call.wrapper.signature) => call.verdict = PyBool(FALSE))

\* a signed wrapper verified under the signer's key, then verified again
\* under that key after its state was changed to another canonical form
C30_Witness ==
    /\ vf_pc = "done"
    /\ vf_first.wrapper = vf_signed
    /\ vf_first.public_key_hex = PublicOf(vf_signed.signature.hex.signer)
    /\ vf_first.verdict = PyBool(TRUE)
    /\ vf_second.public_key_hex = vf_first.public_key_hex
    /\ vf_second.wrapper.signature = vf_signed.signature
    /\ vf_second.wrapper.foodblock.state # vf_signed.foodblock.state
    /\ ContentOf(vf_second.wrapper) # ContentOf(vf_signed)
    /\ vf_second.verdict = PyBool(FALSE)

====
